---- MODULE Spec2Model ----
(***************************************************************************)
(* DustData collection: memtable + append-only data chunks addressed by a *)
(* primary index and gated by a bloom filter, with a write-ahead log of   *)
(* executed operations that supports rollback                             *)
(* (src/src/collection/{mod,storage,wal}.rs, src/src/bloom/mod.rs).       *)
(***************************************************************************)
EXTENDS Integers, Sequences, FiniteSets, TLC

----------------------------------------------------------------------------
(* Bounds of the model *)

NumKeys == 2            \* keys are 1..NumKeys
NumValues == 2          \* values are 1..NumValues
MaxOps == 3             \* operations queued on transactions over the whole run
MaxEarlier == 1         \* keys an earlier process left on the data path
MaxTx == 1              \* Collection::start calls over the whole run
MaxCommits == 2          \* Collection::commit calls by the caller over the whole run
MaxRollbacks == 2       \* rollback transactions Wal::revert builds over the whole run
MaxOpens == 3           \* times the collection is opened on the data path
ValueLen == 1           \* bytes of one serialized value / one serialized field
BitsPerKey == 4         \* filter bits per expected key (616 in the build)
NumHashes == 2          \* hash functions of the filter (20 in the build)
MaxDataChunkSize == 18  \* storage.max_data_chunk_size
MaxDataChunks == 2      \* storage.max_data_chunks
MaxLogSize == 40        \* wal.max_log_size

(* Program constants *)
LenPrefix == 8          \* bytes of the little-endian length prefix

Keys == 1..NumKeys
Values == 1..NumValues

----------------------------------------------------------------------------
(* Finite maps (HashMap / BTreeMap) as functions *)

EmptyMap == [x \in {} |-> 0]
Put(m, k, v) == [x \in (DOMAIN m) \cup {k} |-> IF x = k THEN v ELSE m[x]]
Del(m, k) == [x \in (DOMAIN m) \ {k} |-> m[x]]

(* Option and Result values *)
None == <<"None">>
Some(v) == <<"Some", v>>
Ok == [kind |-> "Ok", key |-> 0]
AlreadyExists(k) == [kind |-> "AlreadyExists", key |-> k]
NotFound(k) == [kind |-> "NotFound", key |-> k]
IoError == [kind |-> "IoError", key |-> 0]
CorruptedData == [kind |-> "CorruptedData", key |-> 0]
Deadlock == [kind |-> "Deadlock", key |-> 0]
Panic == [kind |-> "Panic", key |-> 0]
\* no result: the process was killed inside the call
Killed == [kind |-> "Killed", key |-> 0]

----------------------------------------------------------------------------
(* Bloom filter, src/src/bloom/mod.rs *)

\* farmhash::hash64_with_seed(value, seed): an external hash, stood for by a
\* fixed function of key and seed whose residues collide as those of a real
\* hash do once few bits are shared by many probes.
hash64_with_seed(k, i) == 4 * k * k + 5 * i * (2 - k) * (2 - k) + 4 * i * (k - 1) + (k - 1)

\* num_bits * 8: the bit count of a filter sized for n keys.
FilterBits(n) == BitsPerKey * (n + 1)

\* the bit positions probed for a key: hash % (bitvec.len() * 8), i in 0..hashes
Positions(f, k) == {hash64_with_seed(k, i) % f.nbits : i \in 0..(NumHashes - 1)}

BloomNew(n) == [nbits |-> FilterBits(n), bits |-> {}]
\* BloomFilter::insert that starts from an empty bit vector
BloomInsertOverwriting(f, k) == [f EXCEPT !.bits = Positions(f, k)]
BloomInsert(f, k) == [f EXCEPT !.bits = @ \cup Positions(f, k)]
BloomContains(f, k) == Positions(f, k) \subseteq f.bits
BloomClear(f) == [f EXCEPT !.bits = {}]
BloomRemove(f, k) == [f EXCEPT !.bits = @ \ Positions(f, k)]

----------------------------------------------------------------------------
(* Record files: a file is the sequence of its length-prefixed records; an  *)
(* offset is the byte position of a record's length field.                 *)

\* Storage::serialize_value: len_le_u64 || bincode(value)
serialize_value(v) == LenPrefix + ValueLen

\* File::len of a data chunk
DataLen(recs) == Len(recs) * serialize_value(0)

\* Storage::deserialize_value: seek(offset), read the length, read the value
deserialize_value(recs, offset) ==
    IF offset % serialize_value(0) = 0 /\ offset \div serialize_value(0) < Len(recs)
    THEN [kind |-> "Ok", value |-> recs[(offset \div serialize_value(0)) + 1]]
    ELSE [kind |-> "IoError", value |-> 0]

\* Wal::serialize_value: len_le_u64 || bincode(TransactionLog{id, data})
SerializeLog(log) == LenPrefix + ValueLen * (1 + Len(log.data))

RECURSIVE LogLen(_)
LogLen(recs) ==
    IF recs = <<>> THEN 0 ELSE SerializeLog(Head(recs)) + LogLen(Tail(recs))

\* Wal::deserialize_value: the record that starts at offset, None when the
\* reads run past the end of the file (read_exact(..).unwrap() panics)
DeserializeLog(recs, offset) ==
    LET at == {i \in 1..Len(recs) : LogLen(SubSeq(recs, 1, i - 1)) = offset}
    IN  IF at = {} THEN None ELSE Some(recs[CHOOSE i \in at : TRUE])

----------------------------------------------------------------------------
(* Storage, src/src/collection/storage.rs.  A storage value st is the      *)
(* record [files, file, index, filter]: the data chunk files on disk, the  *)
(* chunk (page, id) the File handle appends to, the in-memory primary      *)
(* index and the filter.                                                   *)

IndexEntry(offset, chunk) == [offset |-> offset, data_chunk |-> chunk]

\* File::write_all on a handle opened without append(true): it writes at the
\* start of the file
write_all_at_start(st, v) ==
    [st EXCEPT !.files = [@ EXCEPT ![st.file] =
        IF @ = <<>> THEN <<v>> ELSE [@ EXCEPT ![1] = v]]]

\* File::write_all on the handle opened with append(true)
write_all(st, v) ==
    [st EXCEPT !.files = [@ EXCEPT ![st.file] = Append(@, v)]]

\* Storage::get_tuple_by_offset_and_data_chunk
get_tuple_by_offset_and_data_chunk(files, offset, chunk) ==
    IF chunk \notin DOMAIN files
    THEN [kind |-> "CorruptedData", value |-> 0]
    ELSE deserialize_value(files[chunk], offset)

\* Storage::contains
StorageContains(st, k) == BloomContains(st.filter, k)

\* Storage::get_tuple
get_tuple(st, k) ==
    IF k \notin DOMAIN st.index
    THEN [kind |-> "None", value |-> 0]
    ELSE get_tuple_by_offset_and_data_chunk(
             st.files, st.index[k].offset, st.index[k].data_chunk)

\* Storage::insert_tuple.  Result: [st, res].
insert_tuple(st, k, v) ==
    IF BloomContains(st.filter, k)
    THEN [st |-> st, res |-> AlreadyExists(k), old |-> 0]
    ELSE LET f1 == BloomInsert(st.filter, k)
             offset == DataLen(st.files[st.file])
             s1 == [st EXCEPT !.filter = f1,
                              !.index = Put(@, k, IndexEntry(offset, st.file))]
         IN  [st |-> write_all(s1, v), res |-> Ok, old |-> 0]

\* Storage::update_tuple.  index.insert(..).unwrap() panics on a key the
\* filter reports but the index does not hold, after the index was written.
update_tuple(st, k, v) ==
    IF ~StorageContains(st, k)
    THEN [st |-> st, res |-> NotFound(k), old |-> 0]
    ELSE LET offset == DataLen(st.files[st.file])
             s1 == [st EXCEPT !.index = Put(@, k, IndexEntry(offset, st.file))]
         IN  IF k \notin DOMAIN st.index
             THEN [st |-> s1, res |-> Panic, old |-> 0]
             ELSE LET s2 == write_all(s1, v)
                      old == get_tuple_by_offset_and_data_chunk(
                                 s2.files, st.index[k].offset, st.index[k].data_chunk)
                  IN  IF old.kind = "Ok"
                      THEN [st |-> s2, res |-> Ok, old |-> old.value]
                      ELSE [st |-> s2, res |-> [kind |-> old.kind, key |-> 0], old |-> 0]

\* Storage::remove_tuple.  index.remove(..).unwrap() panics on a key the
\* filter reports but the index does not hold, after the filter was written.
remove_tuple(st, k) ==
    IF ~StorageContains(st, k)
    THEN [st |-> st, res |-> NotFound(k), old |-> 0]
    ELSE LET s1 == [st EXCEPT !.filter = BloomRemove(@, k)]
         IN  IF k \notin DOMAIN st.index
             THEN [st |-> s1, res |-> Panic, old |-> 0]
             ELSE LET s2 == [s1 EXCEPT !.index = Del(@, k)]
                      old == get_tuple_by_offset_and_data_chunk(
                                 s2.files, st.index[k].offset, st.index[k].data_chunk)
                  IN  IF old.kind = "Ok"
                      THEN [st |-> s2, res |-> Ok, old |-> old.value]
                      ELSE [st |-> s2, res |-> [kind |-> old.kind, key |-> 0], old |-> 0]

\* Storage::clear that leaves the filter as it is
StorageClearIndexOnly(st) == [st EXCEPT !.index = EmptyMap]

\* Storage::clear
StorageClear(st) == [st EXCEPT !.filter = BloomClear(@), !.index = EmptyMap]

\* Storage::data_chunk: the scan for the chunk to append to
RECURSIVE data_chunk(_, _, _)
data_chunk(files, page, id) ==
    IF <<page, id>> \notin DOMAIN files THEN <<page, id>>
    ELSE IF DataLen(files[<<page, id>>]) < MaxDataChunkSize THEN <<page, id>>
    ELSE IF id = MaxDataChunks - 1 THEN data_chunk(files, page + 1, 0)
    ELSE data_chunk(files, page, id + 1)

\* File::new: open with create(true)
FileNew(files, chunk) ==
    IF chunk \in DOMAIN files THEN files ELSE Put(files, chunk, <<>>)

\* Filter::new: a filter sized for the loaded keys, with every key inserted
RECURSIVE InsertAll(_, _)
InsertAll(f, ks) ==
    IF ks = {} THEN f
    ELSE LET k == CHOOSE x \in ks : TRUE
         IN  InsertAll(BloomInsert(f, k), ks \ {k})

FilterNew(ks) == InsertAll(BloomNew(Cardinality(ks)), ks)

----------------------------------------------------------------------------
(* Write-ahead log, src/src/collection/wal.rs.  A wal value is the record  *)
(* [current_file, index]: the id of the log chunk opened at construction    *)
(* and the in-memory WAL index tx_id -> <<log chunk, offset>>.              *)

\* WalOperation::reverse_operation
reverse_operation(w) ==
    CASE w.op = "Insert" -> [op |-> "Delete", key |-> w.key, value |-> 0]
      [] w.op = "Update" -> [op |-> "Update", key |-> w.key, value |-> w.old_value]
      [] w.op = "Delete" -> [op |-> "Insert", key |-> w.key, value |-> w.value]
      [] OTHER -> [op |-> "Drop", key |-> 0, value |-> 0]

\* LogFile::log_chunk: the scan for the log chunk to append to
RECURSIVE log_chunk(_, _)
log_chunk(logs, id) ==
    IF id \notin DOMAIN logs THEN id
    ELSE IF LogLen(logs[id]) < MaxLogSize THEN id
    ELSE log_chunk(logs, id + 1)

\* LogFile::new: open with create(true)
LogFileNew(logs, id) ==
    IF id \in DOMAIN logs THEN logs ELSE Put(logs, id, <<>>)

\* WALIndex::write without the fs::write: the entry stays in memory only
WALIndexWriteUnflushed(c, id, chunk, offset) ==
    [c EXCEPT !.wal.index = Put(@, id, <<chunk, offset>>)]

\* WALIndex::write: insert into the map, then fs::write of the whole map
WALIndexWrite(c, id, chunk, offset) ==
    LET idx == Put(c.wal.index, id, <<chunk, offset>>)
    IN  [c EXCEPT !.wal.index = idx, !.walIndexFile = Some(idx)]

\* Wal::write: the offset is the current length of the log chunk; the index
\* is written and persisted, then the record is appended to the chunk.
WalWrite(c, log) ==
    LET offset == LogLen(c.logFiles[c.wal.current_file])
        c1 == WALIndexWrite(c, log.id, c.wal.current_file, offset)
    IN  [c1 EXCEPT !.logFiles[c.wal.current_file] = Append(@, log)]

\* config.wal.log_path: the default of WALConfig ("./log") and another one
DefaultLogPath == "log"
LogPaths == {DefaultLogPath, "wal"}

\* The files of data_path.join("log"), the directory
\* Wal::read_by_offset_and_log_chunk opens; c.logFiles are the files of
\* data_path.join(config.wal.log_path), which Wal::new and Wal::write use
LogDir(c) == IF c.wal.log_path = DefaultLogPath THEN c.logFiles ELSE EmptyMap

\* Wal::read / Wal::read_by_offset_and_log_chunk
WalRead(c, tx_id) ==
    IF tx_id \notin DOMAIN c.wal.index THEN [kind |-> "Ok", log |-> None]
    ELSE LET e == c.wal.index[tx_id]
         IN  IF e[1] \notin DOMAIN LogDir(c)
             THEN [kind |-> "CorruptedData", log |-> None]
             ELSE LET l == DeserializeLog(LogDir(c)[e[1]], e[2])
                  IN  IF l = None THEN [kind |-> "Panic", log |-> None]
                      ELSE [kind |-> "Ok", log |-> l]

\* Wal::revert with the inverse operations in reverse order
RevertBackwards(log) ==
    IF log = None THEN <<>>
    ELSE [i \in 1..Len(log[2].data) |->
              reverse_operation(log[2].data[Len(log[2].data) + 1 - i])]

\* Wal::revert: the inverse operations in the order of the logged ones
Revert(log) ==
    IF log = None THEN <<>>
    ELSE [i \in 1..Len(log[2].data) |-> reverse_operation(log[2].data[i])]

----------------------------------------------------------------------------
(* Collection, src/src/collection/mod.rs.  A collection value c is the     *)
(* record [memtable, st, wal, logFiles, walIndexFile, walPoisoned,          *)
(* storePoisoned, expected]; expected is the history variable "key -> value *)
(* of the last operation on it that executed successfully".                 *)

\* Operation::{Insert, Update, Delete, Drop}
OpInsert(k, v) == [op |-> "Insert", key |-> k, value |-> v]
OpUpdate(k, v) == [op |-> "Update", key |-> k, value |-> v]
OpDelete(k) == [op |-> "Delete", key |-> k, value |-> 0]
OpDrop == [op |-> "Drop", key |-> 0, value |-> 0]

\* WalOperation::{Insert, Update, Delete, Drop}
WalInsert(k, v) == [op |-> "Insert", key |-> k, value |-> v, old_value |-> 0]
WalUpdate(k, v, old) == [op |-> "Update", key |-> k, value |-> v, old_value |-> old]
WalDelete(k, old) == [op |-> "Delete", key |-> k, value |-> old, old_value |-> 0]
WalDrop == [op |-> "Drop", key |-> 0, value |-> 0, old_value |-> 0]

\* One arm of the match in Collection::execute_operation.
\* Result: [c, res, wal] with wal the WalOperation to push.
ExecInsert(c, k, v) ==
    LET c1 == [c EXCEPT !.memtable = Put(@, k, v)]
        r == insert_tuple(c1.st, k, v)
    IN  IF r.res = Ok
        THEN [c |-> [c1 EXCEPT !.st = r.st, !.expected = Put(@, k, v)],
              res |-> Ok, wal |-> WalInsert(k, v)]
        ELSE [c |-> [c1 EXCEPT !.st = r.st], res |-> r.res, wal |-> WalDrop]

ExecDelete(c, k) ==
    LET c1 == [c EXCEPT !.memtable = Del(@, k)]
        r == remove_tuple(c1.st, k)
    IN  IF r.res = Ok
        THEN [c |-> [c1 EXCEPT !.st = r.st, !.expected = Del(@, k)],
              res |-> Ok, wal |-> WalDelete(k, r.old)]
        ELSE [c |-> [c1 EXCEPT !.st = r.st], res |-> r.res, wal |-> WalDrop]

ExecUpdate(c, k, v) ==
    LET c1 == [c EXCEPT !.memtable = Put(@, k, v)]
        r == update_tuple(c1.st, k, v)
    IN  IF r.res = Ok
        THEN [c |-> [c1 EXCEPT !.st = r.st, !.expected = Put(@, k, v)],
              res |-> Ok, wal |-> WalUpdate(k, v, r.old)]
        ELSE [c |-> [c1 EXCEPT !.st = r.st], res |-> r.res, wal |-> WalDrop]

ExecDrop(c) ==
    [c |-> [c EXCEPT !.memtable = EmptyMap, !.st = StorageClear(@),
                     !.expected = EmptyMap],
     res |-> Ok, wal |-> WalDrop]

ExecOne(c, o) ==
    CASE o.op = "Insert" -> ExecInsert(c, o.key, o.value)
      [] o.op = "Delete" -> ExecDelete(c, o.key)
      [] o.op = "Update" -> ExecUpdate(c, o.key, o.value)
      [] OTHER -> ExecDrop(c)

\* The loop of Collection::execute_operation: `?` returns at the first error
\* and keeps what the earlier operations and the failing arm have written.
RECURSIVE ExecLoop(_, _, _)
\* the `?` and the wal_operations.push after the arm that returned r
ExecPush(r, ops, wal_operations) ==
    IF r.res = Ok
    THEN ExecLoop(r.c, ops, Append(wal_operations, r.wal))
    ELSE [c |-> r.c, res |-> r.res, wal_operations |-> wal_operations]

ExecLoop(c, ops, wal_operations) ==
    IF ops = <<>> THEN [c |-> c, res |-> Ok, wal_operations |-> wal_operations]
    ELSE ExecPush(ExecOne(c, Head(ops)), Tail(ops), wal_operations)

\* The write guards of memtable and storage are dropped while a panic unwinds
Unwind(r) == IF r.res = Panic THEN [r EXCEPT !.c.storePoisoned = TRUE] ELSE r

\* Collection::execute_operation: the write locks of memtable and storage,
\* then the loop.  A panic inside the loop poisons both locks.
execute_operation(c, ops) ==
    IF c.storePoisoned
    THEN [c |-> c, res |-> Deadlock, wal_operations |-> <<>>]
    ELSE Unwind(ExecLoop(c, ops, <<>>))

\* Collection::commit after execute_operation returned e: the `?`, then
\* wal.write and the status.  The wal guard is held while a panic unwinds.
CommitLog(tx, e) ==
    IF e.res = Panic
    THEN [c |-> [e.c EXCEPT !.walPoisoned = TRUE], res |-> Panic,
          status |-> tx.status]
    ELSE IF e.res # Ok
    THEN [c |-> e.c, res |-> e.res, status |-> tx.status]
    ELSE [c |-> WalWrite(e.c, [id |-> tx.tx_id, data |-> e.wal_operations]),
          res |-> Ok, status |-> "Committed"]

\* Collection::commit without the check of the status
commitUnchecked(c, tx) ==
    IF c.walPoisoned THEN [c |-> c, res |-> Deadlock, status |-> tx.status]
    ELSE CommitLog(tx, execute_operation(c, tx.data))

\* Collection::commit.  Result: [c, res, status].
commit(c, tx) ==
    IF tx.status = "Committed" THEN [c |-> c, res |-> Panic, status |-> tx.status]
    ELSE IF c.walPoisoned THEN [c |-> c, res |-> Deadlock, status |-> tx.status]
    ELSE CommitLog(tx, execute_operation(c, tx.data))

\* Collection::abort_transaction with the status set whatever it was
abortUnchecked(tx) == [res |-> Ok, status |-> "Aborted"]

\* Collection::abort_transaction.  Result: [res, status].
abort_transaction(tx) ==
    IF tx.status = "Committed" THEN [res |-> Panic, status |-> tx.status]
    ELSE [res |-> Ok, status |-> "Aborted"]

\* Transaction::new at timestamp now
TransactionNew(now) == [status |-> "Active", data |-> <<>>, tx_id |-> now]

\* Collection::rollback_transaction after self.commit(&mut rollback_tx)
\* returned r: the `?`, then the status
RollbackDone(tx, rt, r) ==
    IF r.res = Ok
    THEN [c |-> r.c, res |-> Ok, status |-> "RolledBack",
          rb |-> [rt EXCEPT !.status = r.status]]
    ELSE [c |-> r.c, res |-> r.res, status |-> tx.status,
          rb |-> [rt EXCEPT !.data = <<>>]]

\* Collection::rollback_transaction after wal.revert read the log record l
RollbackCommit(c, tx, rt) == RollbackDone(tx, rt, commit(c, rt))

\* Collection::rollback_transaction, with now the timestamp Wal::revert reads
\* for the rollback transaction.  Result: [c, res, status, rb] with rb the
\* rollback transaction returned on success.
rollback_transaction(c, tx, now) ==
    LET none == TransactionNew(now) IN
    IF tx.status # "Committed"
    THEN [c |-> c, res |-> Panic, status |-> tx.status, rb |-> none]
    ELSE IF c.walPoisoned
    THEN [c |-> c, res |-> Deadlock, status |-> tx.status, rb |-> none]
    ELSE LET l == WalRead(c, tx.tx_id)
         IN  IF l.kind = "Panic"
             THEN [c |-> [c EXCEPT !.walPoisoned = TRUE], res |-> Panic,
                   status |-> tx.status, rb |-> none]
             ELSE IF l.kind # "Ok"
             THEN [c |-> c, res |-> CorruptedData, status |-> tx.status, rb |-> none]
             ELSE RollbackCommit(c, tx, [none EXCEPT !.data = Revert(l.log)])

\* Collection::contains
contains(c, k) ==
    IF c.storePoisoned THEN <<"Panic">> ELSE Some(StorageContains(c.st, k))

\* Collection::get
get(c, k) ==
    IF c.storePoisoned THEN <<"Panic">>
    ELSE IF ~StorageContains(c.st, k) THEN None
    ELSE IF k \in DOMAIN c.memtable THEN Some(c.memtable[k])
    ELSE LET r == get_tuple(c.st, k)
         IN  CASE r.kind = "None" -> None
               [] r.kind = "Ok" -> Some(r.value)
               [] OTHER -> <<"Err", r.kind>>

----------------------------------------------------------------------------
(* State *)

VARIABLES
    dataFiles,      \* disk: chunk <<page, id>> -> records of Data_{page}_{id}.db
    indexFile,      \* disk: contents of .index-dustdata
    logFiles,       \* disk: id -> records of DustDataLog_{id}
    walIndexFile,   \* disk: contents of .wal-index-dustdata
    alive,          \* the process holds an open Collection
    memtable,       \* Collection.memtable
    storage,        \* Collection.storage: [file, index, filter]
    wal,            \* Collection.wal: [current_file, index]
    walPoisoned,    \* the RwLock of wal was held across a panic
    storePoisoned,  \* the RwLocks of memtable and storage were held across a panic
    txs,            \* the Transaction values the caller holds
    clock,          \* the last reading of get_current_timestamp
    ids,            \* history: tx_ids in the order Transaction::new assigned them
    created,        \* history: Collection::start calls over the whole run
    commits,        \* history: Collection::commit calls by the caller over the whole run
    queued,         \* history: operations queued on transactions over the whole run
    reverted,       \* history: Wal::revert calls over the whole run
    opens,          \* history: Collection::new calls over the whole run
    expected,       \* history: key -> value of its last successful operation
    panicked,       \* history: a call on the collection has panicked
    ended,          \* history: how the previous process ended
    last,           \* history: the last commit / rollback call, its result, get and the
                    \* index keys before it, and whether the data path was reopened since
    snap,           \* history: get of every key around the last successful commit
    th,             \* threads: where each thread is in its commit or get call
    lk,             \* the holders of the RwLocks of wal, memtable and storage
    obs,            \* history: the get calls that returned, in order
    base            \* history: get of every key when the threads started

disk == <<dataFiles, indexFile, logFiles, walIndexFile>>
proc == <<alive, memtable, storage, wal, walPoisoned, storePoisoned>>
hist == <<ids, created, commits, queued, reverted, opens, expected, panicked, ended, last, snap>>
conc == <<th, lk, obs, base>>
vars == <<disk, proc, txs, clock, hist, conc>>

\* The collection value the operators above work on
Col ==
    [memtable |-> memtable,
     st |-> [files |-> dataFiles, file |-> storage.file,
             index |-> storage.index, filter |-> storage.filter],
     wal |-> wal, logFiles |-> logFiles, walIndexFile |-> walIndexFile,
     walPoisoned |-> walPoisoned, storePoisoned |-> storePoisoned,
     expected |-> expected]

SetCol(c) ==
    /\ memtable' = c.memtable
    /\ dataFiles' = c.st.files
    /\ storage' = [file |-> c.st.file, index |-> c.st.index, filter |-> c.st.filter]
    /\ wal' = c.wal
    /\ logFiles' = c.logFiles
    /\ walIndexFile' = c.walIndexFile
    /\ walPoisoned' = c.walPoisoned
    /\ storePoisoned' = c.storePoisoned
    /\ expected' = c.expected

Gets(c) == [k \in Keys |-> get(c, k)]

\* The threads that share the Collection: two that commit, one that reads
Committers == {1, 2}
Readers == {3}
Threads == Committers \cup Readers

\* A thread outside any call, and the three RwLocks with no holder: wal and
\* the write side of memtable and storage name their holder (0: none), the
\* read sides hold the set of readers
Idle == [pc |-> "idle", i |-> 1, wal_operations |-> <<>>, key |-> 0, res |-> Ok,
         waits |-> "none", after |-> {}]
Unlocked == [wal |-> 0, mw |-> 0, mr |-> {}, sw |-> 0, sr |-> {}]

NoLast == [op |-> "none", tx |-> 0, id |-> 0, res |-> Ok, ops |-> <<>>,
           pre |-> <<>>, keys |-> {}, reopened |-> FALSE]
NoSnap == [stage |-> 0, tx |-> 0, rb |-> 0, res |-> Ok, pre |-> <<>>, post |-> <<>>]

\* Index::new: an empty (new) file gives the empty map, which is written out
IndexNew(file) == IF file = None THEN EmptyMap ELSE file[2]

\* impl Drop for Index: what fs::write leaves in .index-dustdata
IndexDrop(file, index) == Some(index)

\* Storage::new that appends to the first chunk file that does not exist,
\* whatever the sizes of the existing ones
StorageNewBySizelessScan(files, idxFile) ==
    LET index == IndexNew(idxFile)
        free == {c \in (0..(Cardinality(DOMAIN files))) \X (0..(MaxDataChunks - 1)) :
                     c \notin DOMAIN files}
        chunk == CHOOSE c \in free :
                     \A d \in free : c[1] < d[1] \/ (c[1] = d[1] /\ c[2] <= d[2])
    IN  [files |-> FileNew(files, chunk),
         storage |-> [file |-> chunk, index |-> index,
                      filter |-> FilterNew(DOMAIN index)],
         indexFile |-> Some(index)]

\* Storage::new and Wal::new on the files found on disk
StorageNew(files, idxFile) ==
    LET index == IndexNew(idxFile)
        chunk == data_chunk(files, 0, 0)
    IN  [files |-> FileNew(files, chunk),
         storage |-> [file |-> chunk, index |-> index,
                      filter |-> FilterNew(DOMAIN index)],
         indexFile |-> Some(index)]

\* Wal::new with config.wal.log_path = log_path, on the files of that
\* directory
WalNewAt(log_path, logs, idxFile) ==
    LET id == log_chunk(logs, 0)
        index == IndexNew(idxFile)
    IN  [logs |-> LogFileNew(logs, id),
         wal |-> [current_file |-> id, index |-> index, log_path |-> log_path],
         walIndexFile |-> Some(index)]

\* Wal::new with the default configuration
WalNew(logs, idxFile) == WalNewAt(DefaultLogPath, logs, idxFile)

----------------------------------------------------------------------------
(* Init: Collection::new on a data path that is either empty or was left by
   an earlier process that opened it empty, ran start_lazy once and dropped
   the collection *)

CollectionNew(files, idxFile, logs, widxFile) ==
    LET s == StorageNew(files, idxFile)
        w == WalNew(logs, widxFile)
    IN  [memtable |-> EmptyMap,
         st |-> [files |-> s.files, file |-> s.storage.file,
                 index |-> s.storage.index, filter |-> s.storage.filter],
         wal |-> w.wal, logFiles |-> w.logs, walIndexFile |-> w.walIndexFile,
         walPoisoned |-> FALSE, storePoisoned |-> FALSE,
         expected |-> EmptyMap, indexFile |-> s.indexFile]

\* Collection::start_lazy with a closure that queues ops
start_lazy(c, ops, now) ==
    commit(c, [TransactionNew(now) EXCEPT !.data = ops])

\* The closure of the earlier process inserts the first n keys
Earlier(n) == [k \in 1..n |-> OpInsert(k, 1)]

\* The data path a process leaves that drops the collection c
Dropped(c) ==
    [dataFiles |-> c.st.files, indexFile |-> IndexDrop(c.indexFile, c.st.index),
     logFiles |-> c.logFiles, walIndexFile |-> c.walIndexFile,
     expected |-> c.expected, clock |-> 1]

\* The data path Init opens
Path(n) ==
    IF n = 0
    THEN [dataFiles |-> EmptyMap, indexFile |-> None, logFiles |-> EmptyMap,
          walIndexFile |-> None, expected |-> EmptyMap, clock |-> 0]
    ELSE Dropped(start_lazy(CollectionNew(EmptyMap, None, EmptyMap, None),
                            Earlier(n), 0).c)

Init ==
    \E n \in 0..MaxEarlier :
    \E d \in {Path(n)} :
    \E c \in {CollectionNew(d.dataFiles, d.indexFile, d.logFiles, d.walIndexFile)} :
            /\ dataFiles = c.st.files
            /\ indexFile = c.indexFile
            /\ logFiles = c.logFiles
            /\ walIndexFile = c.walIndexFile
            /\ alive = TRUE
            /\ memtable = EmptyMap
            /\ storage = [file |-> c.st.file, index |-> c.st.index,
                          filter |-> c.st.filter]
            /\ wal = c.wal
            /\ walPoisoned = FALSE
            /\ storePoisoned = FALSE
            /\ txs = <<>>
            /\ clock = d.clock
            /\ ids = <<>>
            /\ created = 0
            /\ queued = 0
            /\ commits = 0
            /\ reverted = 0
            /\ opens = 1
            /\ expected = d.expected
            /\ panicked = FALSE
            /\ ended = "none"
            /\ last = NoLast
            /\ snap = NoSnap
            /\ th = [t \in Threads |-> Idle]
            /\ lk = Unlocked
            /\ obs = <<>>
            /\ base = <<>>

----------------------------------------------------------------------------
(* Actions *)

\* Collection::start: Transaction::new reads the clock, which since the last
\* reading has either stayed within the same microsecond (adv = 0) or not.
Start(adv) ==
    /\ UNCHANGED conc
    /\ alive
    /\ created < MaxTx
    /\ clock' = clock + adv
    /\ txs' = Append(txs, TransactionNew(clock'))
    /\ ids' = Append(ids, clock')
    /\ created' = created + 1
    /\ UNCHANGED <<disk, proc, commits, queued, reverted, opens, expected, panicked, ended, last,
                   snap>>

\* Transaction::insert / update / delete / clear: push onto tx.data
Push(t, o) ==
    /\ UNCHANGED conc
    /\ t \in 1..Len(txs)
    /\ txs[t].status = "Active"
    /\ queued < MaxOps
    /\ txs' = [txs EXCEPT ![t].data = Append(@, o)]
    /\ queued' = queued + 1
    /\ UNCHANGED <<disk, proc, clock, ids, created, commits, reverted, opens, expected,
                   panicked, ended, last, snap>>

TxInsert(t, k, v) == Push(t, OpInsert(k, v))
TxUpdate(t, k, v) == Push(t, OpUpdate(k, v))
TxDelete(t, k) == Push(t, OpDelete(k))
TxClear(t) == Push(t, OpDrop)

\* Collection::commit
Commit(t) ==
    /\ UNCHANGED conc
    /\ alive
    /\ t \in 1..Len(txs)
    /\ commits < MaxCommits
    /\ commits' = commits + 1
    /\ \E r \in {commit(Col, txs[t])} :
           /\ SetCol(r.c)
           /\ txs' = [txs EXCEPT ![t].status = r.status]
           /\ last' = [op |-> "commit", tx |-> t, id |-> txs[t].tx_id,
                       res |-> r.res, ops |-> txs[t].data, pre |-> Gets(Col),
                       keys |-> DOMAIN storage.index, reopened |-> FALSE]
           /\ snap' = IF r.res = Ok
                      THEN [stage |-> 1, tx |-> t, rb |-> 0, res |-> Ok,
                            pre |-> Gets(Col), post |-> Gets(r.c)]
                      ELSE NoSnap
           /\ panicked' = (panicked \/ r.res = Panic)
    /\ UNCHANGED <<indexFile, alive, clock, ids, created, queued, reverted, opens,
                   ended>>

\* Collection::abort_transaction
Abort(t) ==
    /\ UNCHANGED conc
    /\ alive
    /\ t \in 1..Len(txs)
    /\ \E r \in {abort_transaction(txs[t])} :
           /\ txs' = [txs EXCEPT ![t].status = r.status]
           /\ panicked' = (panicked \/ r.res = Panic)
    /\ UNCHANGED <<disk, proc, clock, ids, created, commits, queued, reverted, opens,
                   expected, ended, last, snap>>

\* Collection::rollback_transaction; Wal::revert reads the clock for the
\* rollback transaction once the status and the lock let it through.
Rollback(t, adv) ==
    /\ UNCHANGED conc
    /\ alive
    /\ t \in 1..Len(txs)
    /\ reverted < MaxRollbacks
    /\ LET reads == txs[t].status = "Committed" /\ ~walPoisoned
           now == IF reads THEN clock + adv ELSE clock
           n == Len(txs) + 1
       IN  \E r \in {rollback_transaction(Col, txs[t], now)} :
           /\ reads \/ adv = 0
           /\ SetCol(r.c)
           /\ clock' = now
           /\ ids' = IF reads /\ r.res.kind # "Panic" /\ r.res.kind # "CorruptedData"
                     THEN Append(ids, now) ELSE ids
           /\ reverted' = IF ids' # ids THEN reverted + 1 ELSE reverted
           /\ txs' = IF r.res = Ok
                     THEN Append([txs EXCEPT ![t].status = r.status], r.rb)
                     ELSE txs
           /\ last' = [op |-> "rollback", tx |-> t, id |-> r.rb.tx_id,
                       res |-> r.res, ops |-> r.rb.data, pre |-> Gets(Col),
                       keys |-> DOMAIN storage.index, reopened |-> FALSE]
           /\ snap' = IF snap.stage = 1 /\ snap.tx = t
                      THEN [snap EXCEPT !.stage = 2, !.res = r.res,
                                        !.rb = IF r.res = Ok THEN n ELSE 0]
                      ELSE IF snap.stage = 2 /\ snap.rb = t
                      THEN [snap EXCEPT !.stage = 3, !.res = r.res]
                      ELSE NoSnap
           /\ panicked' = (panicked \/ r.res = Panic)
    /\ UNCHANGED <<indexFile, alive, created, commits, queued, opens, ended>>

\* The volatile state of a process that is gone
Gone ==
    /\ alive' = FALSE
    /\ memtable' = EmptyMap
    /\ storage' = [file |-> <<0, 0>>, index |-> EmptyMap, filter |-> BloomNew(0)]
    /\ wal' = [current_file |-> 0, index |-> EmptyMap, log_path |-> wal.log_path]
    /\ walPoisoned' = FALSE
    /\ storePoisoned' = FALSE
    /\ txs' = <<>>
    /\ ids' = <<>>
    /\ snap' = NoSnap

\* The Collection is dropped (the process exits): impl Drop for Index runs
Close ==
    /\ UNCHANGED conc
    /\ alive
    /\ indexFile' = IndexDrop(indexFile, storage.index)
    /\ Gone
    /\ ended' = "close"
    /\ UNCHANGED <<dataFiles, logFiles, walIndexFile, clock, created, commits, queued,
                   reverted, opens, expected, panicked, last>>

\* The process is killed: no destructor runs
Kill ==
    /\ UNCHANGED conc
    /\ alive
    /\ Gone
    /\ ended' = "kill"
    /\ UNCHANGED <<disk, clock, created, commits, queued, reverted, opens, expected, panicked,
                   last>>

\* The process is killed inside Collection::commit after execute_operation
\* returned Ok: before Wal::write is called (indexed = FALSE), or inside
\* Wal::write between WALIndex::write and the write_all of the record
\* (indexed = TRUE)
KillInCommit(t, indexed) ==
    /\ UNCHANGED conc
    /\ alive
    /\ t \in 1..Len(txs)
    /\ commits < MaxCommits
    /\ commits' = commits + 1
    /\ txs[t].status # "Committed"
    /\ ~walPoisoned
    /\ \E e \in {execute_operation(Col, txs[t].data)} :
           /\ e.res = Ok
           /\ dataFiles' = e.c.st.files
           /\ expected' = e.c.expected
           /\ walIndexFile' =
                  IF indexed
                  THEN WALIndexWrite(e.c, txs[t].tx_id, wal.current_file,
                                     LogLen(logFiles[wal.current_file])).walIndexFile
                  ELSE walIndexFile
    /\ last' = [op |-> "commit", tx |-> t, id |-> txs[t].tx_id, res |-> Killed,
                ops |-> txs[t].data, pre |-> Gets(Col),
                keys |-> DOMAIN storage.index, reopened |-> FALSE]
    /\ Gone
    /\ ended' = "kill"
    /\ UNCHANGED <<indexFile, logFiles, clock, created, queued, reverted, opens, panicked>>

\* Collection::new on the data path a previous process left
Open ==
    /\ UNCHANGED conc
    /\ ~alive
    /\ opens < MaxOpens
    /\ LET s == StorageNew(dataFiles, indexFile)
           w == WalNew(logFiles, walIndexFile)
       IN  /\ dataFiles' = s.files
           /\ indexFile' = s.indexFile
           /\ storage' = s.storage
           /\ logFiles' = w.logs
           /\ walIndexFile' = w.walIndexFile
           /\ wal' = w.wal
    /\ alive' = TRUE
    /\ opens' = opens + 1
    /\ last' = [(IF last.reopened THEN NoLast ELSE last) EXCEPT !.reopened = TRUE]
    /\ UNCHANGED <<memtable, walPoisoned, storePoisoned, txs, clock, ids, created, commits, queued, reverted,
                   expected, panicked, ended, snap>>

Next ==
    \/ \E adv \in {0, 1} : Start(adv)
    \/ \E t \in 1..(MaxTx + MaxRollbacks), k \in Keys, v \in Values : TxInsert(t, k, v)
    \/ \E t \in 1..(MaxTx + MaxRollbacks), k \in Keys, v \in Values : TxUpdate(t, k, v)
    \/ \E t \in 1..(MaxTx + MaxRollbacks), k \in Keys : TxDelete(t, k)
    \/ \E t \in 1..(MaxTx + MaxRollbacks) : TxClear(t)
    \/ \E t \in 1..(MaxTx + MaxRollbacks) : Commit(t)
    \/ \E t \in 1..(MaxTx + MaxRollbacks) : Abort(t)
    \/ \E t \in 1..(MaxTx + MaxRollbacks), adv \in {0, 1} : Rollback(t, adv)
    \/ Close
    \/ Kill
    \/ \E t \in 1..(MaxTx + MaxRollbacks), indexed \in BOOLEAN : KillInCommit(t, indexed)
    \/ Open

Spec == Init /\ [][Next]_vars

----------------------------------------------------------------------------
(* Reopen: the calls of Spec on a data path with a history of two processes:
   the first inserted key 1 with start_lazy and dropped the collection, the
   second updated key 1 in a successful commit and was killed. *)

\* The data path a process leaves that is killed while it holds c: no
\* destructor has run, the index file is as Collection::new left it
Abandoned(c) ==
    [dataFiles |-> c.st.files, indexFile |-> c.indexFile,
     logFiles |-> c.logFiles, walIndexFile |-> c.walIndexFile,
     expected |-> c.expected, clock |-> 2]

\* The data path ReopenInit opens
KilledPath ==
    LET d == Path(1)
        c == CollectionNew(d.dataFiles, d.indexFile, d.logFiles, d.walIndexFile)
    IN  Abandoned(start_lazy([c EXCEPT !.expected = d.expected],
                             <<OpUpdate(1, NumValues)>>, d.clock).c)

ReopenInit ==
    \E d \in {KilledPath} :
    \E c \in {CollectionNew(d.dataFiles, d.indexFile, d.logFiles, d.walIndexFile)} :
            /\ dataFiles = c.st.files
            /\ indexFile = c.indexFile
            /\ logFiles = c.logFiles
            /\ walIndexFile = c.walIndexFile
            /\ alive = TRUE
            /\ memtable = EmptyMap
            /\ storage = [file |-> c.st.file, index |-> c.st.index,
                          filter |-> c.st.filter]
            /\ wal = c.wal
            /\ walPoisoned = FALSE
            /\ storePoisoned = FALSE
            /\ txs = <<>>
            /\ clock = d.clock
            /\ ids = <<>>
            /\ created = 0
            /\ queued = 0
            /\ commits = 0
            /\ reverted = 0
            /\ opens = 1
            /\ expected = d.expected
            /\ panicked = FALSE
            /\ ended = "kill"
            /\ last = NoLast
            /\ snap = NoSnap
            /\ th = [t \in Threads |-> Idle]
            /\ lk = Unlocked
            /\ obs = <<>>
            /\ base = <<>>

ReopenSpec == ReopenInit /\ [][Next]_vars

----------------------------------------------------------------------------
(* Threads: two threads that each commit one transaction and one thread that
   calls get, sharing one Collection.  A step is what a thread does between
   two points where it takes or releases a lock. *)

MaxTxLen == 2
MaxGets == 2

\* The operations the threads' transactions queue (the values they write are
\* not the value the seeds wrote), and the sequences of at most n of them
AllOps ==
    {OpInsert(k, NumValues) : k \in Keys} \cup {OpUpdate(k, NumValues) : k \in Keys}
        \cup {OpDelete(k) : k \in Keys} \cup {OpDrop}
OpSeqs(n) == UNION {[1..m -> AllOps] : m \in 0..n}

\* The closures the process has run through start_lazy before the threads start
ThreadSeeds == {<<>>, <<OpInsert(2, 1), OpInsert(1, 1)>>}

ThreadInit ==
    \E seed \in ThreadSeeds, a \in OpSeqs(MaxTxLen), b \in [1..1 -> AllOps] :
    \E c \in {start_lazy(CollectionNew(EmptyMap, None, EmptyMap, None), seed, 0).c} :
            /\ dataFiles = c.st.files
            /\ indexFile = c.indexFile
            /\ logFiles = c.logFiles
            /\ walIndexFile = c.walIndexFile
            /\ alive = TRUE
            /\ memtable = c.memtable
            /\ storage = [file |-> c.st.file, index |-> c.st.index,
                          filter |-> c.st.filter]
            /\ wal = c.wal
            /\ walPoisoned = FALSE
            /\ storePoisoned = FALSE
            /\ txs = <<[TransactionNew(1) EXCEPT !.data = a],
                       [TransactionNew(2) EXCEPT !.data = b]>>
            /\ clock = 2
            /\ ids = <<0, 1, 2>>
            /\ created = 0
            /\ queued = 0
            /\ commits = 0
            /\ reverted = 0
            /\ opens = 1
            /\ expected = c.expected
            /\ panicked = FALSE
            /\ ended = "none"
            /\ last = NoLast
            /\ snap = NoSnap
            /\ th = [t \in Threads |-> Idle]
            /\ lk = Unlocked
            /\ obs = <<>>
            /\ base = Gets(c)

\* What a thread step leaves alone
ThreadFrame ==
    UNCHANGED <<indexFile, alive, clock, ids, created, commits, queued, reverted, opens,
                panicked, ended, last, snap, base>>
ColFrame ==
    UNCHANGED <<memtable, dataFiles, storage, wal, logFiles, walIndexFile, walPoisoned,
                storePoisoned, expected>>

\* the committers whose commit has returned Ok
Returned == {c \in Committers : th[c].pc = "done" /\ th[c].res = Ok}

\* Collection::commit up to `self.wal.try_write()`
CommitBegin(t) ==
    /\ t \in Committers
    /\ th[t].pc = "idle"
    /\ IF txs[t].status = "Committed"
       THEN /\ th' = [th EXCEPT ![t].pc = "done", ![t].res = Panic, ![t].after = Returned]
            /\ lk' = lk
       ELSE IF walPoisoned \/ lk.wal # 0
       THEN /\ th' = [th EXCEPT ![t].pc = "done", ![t].res = Deadlock,
                                ![t].after = Returned]
            /\ lk' = lk
       ELSE /\ th' = [th EXCEPT ![t].pc = "memtable_write", ![t].after = Returned]
            /\ lk' = [lk EXCEPT !.wal = t]
    /\ ColFrame /\ ThreadFrame /\ UNCHANGED <<txs, obs>>

\* Collection::execute_operation: `self.memtable.write()`, which waits while
\* the lock has a holder
LockMemtable(t) ==
    /\ t \in Committers
    /\ th[t].pc = "memtable_write"
    /\ IF lk.mw # 0 \/ lk.mr # {}
       THEN /\ th[t].waits = "none"
            /\ th' = [th EXCEPT ![t].waits = "memtable"]
            /\ lk' = lk
       ELSE IF storePoisoned
       THEN /\ th' = [th EXCEPT ![t].pc = "commit_ret", ![t].res = Deadlock,
                                ![t].waits = "none"]
            /\ lk' = lk
       ELSE /\ th' = [th EXCEPT ![t].pc = "storage_write", ![t].waits = "none"]
            /\ lk' = [lk EXCEPT !.mw = t]
    /\ ColFrame /\ ThreadFrame /\ UNCHANGED <<txs, obs>>

\* Collection::execute_operation: `self.storage.write()`
LockStorage(t) ==
    /\ t \in Committers
    /\ th[t].pc = "storage_write"
    /\ IF lk.sw # 0 \/ lk.sr # {}
       THEN /\ th[t].waits = "none"
            /\ th' = [th EXCEPT ![t].waits = "storage"]
            /\ lk' = lk
       ELSE IF storePoisoned
       THEN /\ th' = [th EXCEPT ![t].pc = "unlock_memtable", ![t].res = Deadlock,
                                ![t].waits = "none"]
            /\ lk' = lk
       ELSE /\ th' = [th EXCEPT ![t].pc = "loop", ![t].waits = "none"]
            /\ lk' = [lk EXCEPT !.sw = t]
    /\ ColFrame /\ ThreadFrame /\ UNCHANGED <<txs, obs>>

\* One turn of the loop of Collection::execute_operation, or its end.  A
\* panic unwinds through the three guards and poisons their locks.
ExecStep(t) ==
    /\ t \in Committers
    /\ th[t].pc = "loop"
    /\ IF th[t].i > Len(txs[t].data)
       THEN /\ th' = [th EXCEPT ![t].pc = "unlock_storage"]
            /\ ColFrame
       ELSE \E r \in {ExecOne(Col, txs[t].data[th[t].i])} :
            /\ SetCol(IF r.res = Panic
                      THEN [r.c EXCEPT !.storePoisoned = TRUE, !.walPoisoned = TRUE]
                      ELSE r.c)
            /\ th' = IF r.res = Ok
                     THEN [th EXCEPT ![t].i = @ + 1,
                                     ![t].wal_operations = Append(@, r.wal)]
                     ELSE [th EXCEPT ![t].pc = "unlock_storage", ![t].res = r.res]
    /\ ThreadFrame /\ UNCHANGED <<txs, obs, lk>>

\* The guard of storage is dropped when execute_operation returns or unwinds
UnlockStorage(t) ==
    /\ t \in Committers
    /\ th[t].pc = "unlock_storage"
    /\ th' = [th EXCEPT ![t].pc = "unlock_memtable"]
    /\ lk' = [lk EXCEPT !.sw = 0]
    /\ ColFrame /\ ThreadFrame /\ UNCHANGED <<txs, obs>>

\* The guard of memtable is dropped after it; then the `?` of commit
UnlockMemtable(t) ==
    /\ t \in Committers
    /\ th[t].pc = "unlock_memtable"
    /\ th' = [th EXCEPT ![t].pc = IF th[t].res = Ok THEN "wal_write" ELSE "commit_ret"]
    /\ lk' = [lk EXCEPT !.mw = 0]
    /\ ColFrame /\ ThreadFrame /\ UNCHANGED <<txs, obs>>

\* Collection::commit: `wal.write(transaction_log)` and the status
WalWriteStep(t) ==
    /\ t \in Committers
    /\ th[t].pc = "wal_write"
    /\ SetCol(WalWrite(Col, [id |-> txs[t].tx_id, data |-> th[t].wal_operations]))
    /\ txs' = [txs EXCEPT ![t].status = "Committed"]
    /\ th' = [th EXCEPT ![t].pc = "commit_ret"]
    /\ ThreadFrame /\ UNCHANGED <<obs, lk>>

\* Collection::commit returns: the guard of wal is dropped
CommitReturn(t) ==
    /\ t \in Committers
    /\ th[t].pc = "commit_ret"
    /\ th' = [th EXCEPT ![t].pc = "done"]
    /\ lk' = [lk EXCEPT !.wal = 0]
    /\ ColFrame /\ ThreadFrame /\ UNCHANGED <<txs, obs>>

\* Collection::get returns res to thread t
GetReturn(t, res) ==
    /\ th' = [th EXCEPT ![t] = Idle]
    /\ obs' = Append(obs, [key |-> th[t].key, res |-> res, after |-> th[t].after])

\* Collection::get(key) is called
GetBegin(t, k) ==
    /\ t \in Readers
    /\ th[t].pc = "idle"
    /\ Len(obs) < MaxGets
    /\ th' = [th EXCEPT ![t].pc = "contains_lock", ![t].key = k, ![t].after = Returned]
    /\ ColFrame /\ ThreadFrame /\ UNCHANGED <<txs, obs, lk>>

\* Collection::contains: `self.storage.read().unwrap()`
ContainsLock(t) ==
    /\ t \in Readers
    /\ th[t].pc = "contains_lock"
    /\ IF lk.sw # 0
       THEN /\ th[t].waits = "none"
            /\ th' = [th EXCEPT ![t].waits = "storage"]
            /\ UNCHANGED <<lk, obs>>
       ELSE IF storePoisoned
       THEN /\ GetReturn(t, <<"Panic">>)
            /\ lk' = lk
       ELSE /\ th' = [th EXCEPT ![t].pc = "contains", ![t].waits = "none"]
            /\ lk' = [lk EXCEPT !.sr = @ \cup {t}]
            /\ obs' = obs
    /\ ColFrame /\ ThreadFrame /\ UNCHANGED txs

\* Collection::contains: Storage::contains under the read guard, which is
\* dropped at the end of the statement; then `return Ok(None)` of get
ContainsRead(t) ==
    /\ t \in Readers
    /\ th[t].pc = "contains"
    /\ lk' = [lk EXCEPT !.sr = @ \ {t}]
    /\ IF StorageContains(Col.st, th[t].key)
       THEN /\ th' = [th EXCEPT ![t].pc = "memtable_read"]
            /\ obs' = obs
       ELSE GetReturn(t, None)
    /\ ColFrame /\ ThreadFrame /\ UNCHANGED txs

\* Collection::get: `self.memtable.read()`
MemtableRead(t) ==
    /\ t \in Readers
    /\ th[t].pc = "memtable_read"
    /\ IF lk.mw # 0
       THEN /\ th[t].waits = "none"
            /\ th' = [th EXCEPT ![t].waits = "memtable"]
            /\ UNCHANGED <<lk, obs>>
       ELSE IF storePoisoned
       THEN /\ GetReturn(t, <<"Err", "Deadlock">>)
            /\ lk' = lk
       ELSE /\ th' = [th EXCEPT ![t].pc = "lookup", ![t].waits = "none"]
            /\ lk' = [lk EXCEPT !.mr = @ \cup {t}]
            /\ obs' = obs
    /\ ColFrame /\ ThreadFrame /\ UNCHANGED txs

\* Collection::get: `memtable.get(key)`; a hit returns and drops the guard
Lookup(t) ==
    /\ t \in Readers
    /\ th[t].pc = "lookup"
    /\ IF th[t].key \in DOMAIN memtable
       THEN /\ GetReturn(t, Some(memtable[th[t].key]))
            /\ lk' = [lk EXCEPT !.mr = @ \ {t}]
       ELSE /\ th' = [th EXCEPT ![t].pc = "tuple_lock"]
            /\ UNCHANGED <<lk, obs>>
    /\ ColFrame /\ ThreadFrame /\ UNCHANGED txs

\* Collection::get: `self.storage.read().unwrap()` with the memtable guard held
TupleLock(t) ==
    /\ t \in Readers
    /\ th[t].pc = "tuple_lock"
    /\ IF lk.sw # 0
       THEN /\ th[t].waits = "none"
            /\ th' = [th EXCEPT ![t].waits = "storage"]
            /\ UNCHANGED <<lk, obs>>
       ELSE IF storePoisoned
       THEN /\ GetReturn(t, <<"Panic">>)
            /\ lk' = [lk EXCEPT !.mr = @ \ {t}]
       ELSE /\ th' = [th EXCEPT ![t].pc = "tuple", ![t].waits = "none"]
            /\ lk' = [lk EXCEPT !.sr = @ \cup {t}]
            /\ obs' = obs
    /\ ColFrame /\ ThreadFrame /\ UNCHANGED txs

\* Collection::get: Storage::get_tuple, then both guards are dropped
TupleRead(t) ==
    /\ t \in Readers
    /\ th[t].pc = "tuple"
    /\ \E r \in {get_tuple(Col.st, th[t].key)} :
           GetReturn(t, CASE r.kind = "None" -> None
                          [] r.kind = "Ok" -> Some(r.value)
                          [] OTHER -> <<"Err", r.kind>>)
    /\ lk' = [lk EXCEPT !.sr = @ \ {t}, !.mr = @ \ {t}]
    /\ ColFrame /\ ThreadFrame /\ UNCHANGED txs

ThreadNext ==
    \/ \E t \in Threads : CommitBegin(t)
    \/ \E t \in Threads : LockMemtable(t)
    \/ \E t \in Threads : LockStorage(t)
    \/ \E t \in Threads : ExecStep(t)
    \/ \E t \in Threads : UnlockStorage(t)
    \/ \E t \in Threads : UnlockMemtable(t)
    \/ \E t \in Threads : WalWriteStep(t)
    \/ \E t \in Threads : CommitReturn(t)
    \/ \E t \in Threads, k \in Keys : GetBegin(t, k)
    \/ \E t \in Threads : ContainsLock(t)
    \/ \E t \in Threads : ContainsRead(t)
    \/ \E t \in Threads : MemtableRead(t)
    \/ \E t \in Threads : Lookup(t)
    \/ \E t \in Threads : TupleLock(t)
    \/ \E t \in Threads : TupleRead(t)

ThreadSpec == ThreadInit /\ [][ThreadNext]_vars

----------------------------------------------------------------------------
(* Locks: the lock operations of commit, rollback_transaction, get and
   contains, called by three threads in any order.  What a call reads while
   it holds its locks (the result of the loop of execute_operation, of
   Wal::revert, of the filter and of the memtable lookup) is any of the
   outcomes the code has.  read() of a lock either passes a waiting writer or
   queues behind it, as the platform's RwLock decides (lk.queue). *)

MaxCalls == 2

Calls == {"commit", "rollback", "get", "contains"}

LockInit ==
    \E queue \in BOOLEAN :
    \E c \in {CollectionNew(EmptyMap, None, EmptyMap, None)} :
            /\ dataFiles = c.st.files
            /\ indexFile = c.indexFile
            /\ logFiles = c.logFiles
            /\ walIndexFile = c.walIndexFile
            /\ alive = TRUE
            /\ memtable = EmptyMap
            /\ storage = [file |-> c.st.file, index |-> c.st.index,
                          filter |-> c.st.filter]
            /\ wal = c.wal
            /\ walPoisoned = FALSE
            /\ storePoisoned = FALSE
            /\ txs = <<>>
            /\ clock = 0
            /\ ids = <<>>
            /\ created = 0
            /\ queued = 0
            /\ commits = 0
            /\ reverted = 0
            /\ opens = 1
            /\ expected = EmptyMap
            /\ panicked = FALSE
            /\ ended = "none"
            /\ last = NoLast
            /\ snap = NoSnap
            /\ th = [t \in Threads |-> [Idle EXCEPT !.i = 0]]
            /\ lk = [wal |-> 0, mw |-> 0, mr |-> {}, sw |-> 0, sr |-> {},
                     queue |-> queue]
            /\ obs = <<>>
            /\ base = <<>>

\* What a step of a call leaves alone
LockFrame ==
    UNCHANGED <<disk, alive, memtable, storage, wal, txs, clock, ids, created, commits,
                queued, reverted, opens, expected, panicked, ended, last, snap, obs, base>>

\* a thread inside commit waits in memtable.write() / storage.write()
WriterWaits(l) ==
    \E c \in Threads : th[c].waits = l /\ th[c].pc \in {"c_mem", "c_st"}

\* read() on the memtable / storage lock has to wait
MemtableReadWaits == lk.mw # 0 \/ (lk.queue /\ WriterWaits("memtable"))
StorageReadWaits == lk.sw # 0 \/ (lk.queue /\ WriterWaits("storage"))

\* the call of thread t returns (or unwinds); what it returns plays no part
\* in the locks
LReturn(t) == th' = [th EXCEPT ![t].pc = "idle", ![t].waits = "none"]
\* thread t goes on to pc
LGoto(t, pc) == th' = [th EXCEPT ![t].pc = pc, ![t].waits = "none"]
\* thread t is blocked in a lock call
LWait(t, l) == th[t].waits = "none" /\ th' = [th EXCEPT ![t].waits = l]

\* A thread calls commit, rollback_transaction, get or contains
LCall(t, f) ==
    /\ th[t].pc = "idle"
    /\ th[t].i < MaxCalls
    /\ th' = [th EXCEPT ![t].i = @ + 1,
                        ![t].pc = CASE f = "commit" -> "c_begin"
                                    [] f = "rollback" -> "r_wal"
                                    [] f = "get" -> "g_contains"
                                    [] OTHER -> "k_contains"]
    /\ LockFrame /\ UNCHANGED <<lk, walPoisoned, storePoisoned>>

\* Collection::commit: `self.wal.try_write()`, called by the thread (c_begin)
\* or by its rollback_transaction (r_commit)
LTryWal(t) ==
    /\ th[t].pc \in {"c_begin", "r_commit"}
    /\ IF walPoisoned \/ lk.wal # 0
       THEN LReturn(t) /\ lk' = lk
       ELSE LGoto(t, "c_mem") /\ lk' = [lk EXCEPT !.wal = t]
    /\ LockFrame /\ UNCHANGED <<walPoisoned, storePoisoned>>

\* Collection::execute_operation: `self.memtable.write()`
LMemWrite(t) ==
    /\ th[t].pc = "c_mem"
    /\ IF lk.mw # 0 \/ lk.mr # {}
       THEN LWait(t, "memtable") /\ lk' = lk
       ELSE IF storePoisoned
       THEN LGoto(t, "c_ret") /\ lk' = lk
       ELSE LGoto(t, "c_st") /\ lk' = [lk EXCEPT !.mw = t]
    /\ LockFrame /\ UNCHANGED <<walPoisoned, storePoisoned>>

\* Collection::execute_operation: `self.storage.write()`
LStWrite(t) ==
    /\ th[t].pc = "c_st"
    /\ IF lk.sw # 0 \/ lk.sr # {}
       THEN LWait(t, "storage") /\ lk' = lk
       ELSE IF storePoisoned
       THEN LGoto(t, "c_unmem") /\ lk' = lk
       ELSE LGoto(t, "c_loop") /\ lk' = [lk EXCEPT !.sw = t]
    /\ LockFrame /\ UNCHANGED <<walPoisoned, storePoisoned>>

\* The loop of Collection::execute_operation runs to its end, to an error
\* or into a panic, which poisons the three locks held
LExec(t, res) ==
    /\ th[t].pc = "c_loop"
    /\ LGoto(t, "c_unst")
    /\ storePoisoned' = (storePoisoned \/ res = Panic)
    /\ walPoisoned' = (walPoisoned \/ res = Panic)
    /\ LockFrame /\ UNCHANGED lk

\* The guards of storage and of memtable are dropped, in this order
LUnlockStorage(t) ==
    /\ th[t].pc = "c_unst"
    /\ LGoto(t, "c_unmem")
    /\ lk' = [lk EXCEPT !.sw = 0]
    /\ LockFrame /\ UNCHANGED <<walPoisoned, storePoisoned>>

LUnlockMemtable(t) ==
    /\ th[t].pc = "c_unmem"
    /\ LGoto(t, "c_ret")
    /\ lk' = [lk EXCEPT !.mw = 0]
    /\ LockFrame /\ UNCHANGED <<walPoisoned, storePoisoned>>

\* Collection::commit returns (after wal.write when the loop succeeded): the
\* guard of wal is dropped
LCommitReturn(t) ==
    /\ th[t].pc = "c_ret"
    /\ LReturn(t)
    /\ lk' = [lk EXCEPT !.wal = 0]
    /\ LockFrame /\ UNCHANGED <<walPoisoned, storePoisoned>>

\* Collection::rollback_transaction: `self.wal.write()`
LWalWrite(t) ==
    /\ th[t].pc = "r_wal"
    /\ IF lk.wal # 0
       THEN LWait(t, "wal") /\ lk' = lk
       ELSE IF walPoisoned
       THEN LReturn(t) /\ lk' = lk
       ELSE LGoto(t, "r_revert") /\ lk' = [lk EXCEPT !.wal = t]
    /\ LockFrame /\ UNCHANGED <<walPoisoned, storePoisoned>>

\* Collection::rollback_transaction: `wal.revert(tx_id)?`, `drop(wal)`, and
\* on success on to `self.commit(&mut rollback_transaction)`
LRevert(t, res) ==
    /\ th[t].pc = "r_revert"
    /\ IF res = Ok THEN LGoto(t, "r_commit") ELSE LReturn(t)
    /\ lk' = [lk EXCEPT !.wal = 0]
    /\ walPoisoned' = (walPoisoned \/ res = Panic)
    /\ LockFrame /\ UNCHANGED storePoisoned

\* Collection::contains: `self.storage.read().unwrap()`
LStRead(t) ==
    /\ th[t].pc \in {"g_contains", "k_contains"}
    /\ IF StorageReadWaits
       THEN LWait(t, "storage") /\ lk' = lk
       ELSE IF storePoisoned
       THEN LReturn(t) /\ lk' = lk
       ELSE /\ LGoto(t, IF th[t].pc = "g_contains" THEN "g_filter" ELSE "k_filter")
            /\ lk' = [lk EXCEPT !.sr = @ \cup {t}]
    /\ LockFrame /\ UNCHANGED <<walPoisoned, storePoisoned>>

\* Collection::contains with the guard kept by get until it returns
LContainsKeepsGuard(t, b) ==
    /\ th[t].pc \in {"g_filter", "k_filter"}
    /\ IF th[t].pc = "g_filter" /\ b
       THEN LGoto(t, "g_mem") /\ lk' = lk
       ELSE LReturn(t) /\ lk' = [lk EXCEPT !.sr = @ \ {t}]
    /\ LockFrame /\ UNCHANGED <<walPoisoned, storePoisoned>>

\* Collection::contains: the filter answers b and the guard is dropped;
\* get goes on when b is true
LContains(t, b) ==
    /\ th[t].pc \in {"g_filter", "k_filter"}
    /\ IF th[t].pc = "g_filter" /\ b THEN LGoto(t, "g_mem") ELSE LReturn(t)
    /\ lk' = [lk EXCEPT !.sr = @ \ {t}]
    /\ LockFrame /\ UNCHANGED <<walPoisoned, storePoisoned>>

\* Collection::get: `self.memtable.read()`
LMemRead(t) ==
    /\ th[t].pc = "g_mem"
    /\ IF MemtableReadWaits
       THEN LWait(t, "memtable") /\ lk' = lk
       ELSE IF storePoisoned
       THEN LReturn(t) /\ lk' = lk
       ELSE LGoto(t, "g_lookup") /\ lk' = [lk EXCEPT !.mr = @ \cup {t}]
    /\ LockFrame /\ UNCHANGED <<walPoisoned, storePoisoned>>

\* Collection::get: `memtable.get(key)`; a hit returns and drops the guard
LLookup(t, hit) ==
    /\ th[t].pc = "g_lookup"
    /\ IF hit
       THEN LReturn(t) /\ lk' = [lk EXCEPT !.mr = @ \ {t}]
       ELSE LGoto(t, "g_tuple") /\ lk' = lk
    /\ LockFrame /\ UNCHANGED <<walPoisoned, storePoisoned>>

\* Collection::get: `self.storage.read().unwrap()` under the memtable guard
LTupleLock(t) ==
    /\ th[t].pc = "g_tuple"
    /\ IF StorageReadWaits
       THEN LWait(t, "storage") /\ lk' = lk
       ELSE IF storePoisoned
       THEN LReturn(t) /\ lk' = [lk EXCEPT !.mr = @ \ {t}]
       ELSE LGoto(t, "g_read") /\ lk' = [lk EXCEPT !.sr = @ \cup {t}]
    /\ LockFrame /\ UNCHANGED <<walPoisoned, storePoisoned>>

\* Collection::get: Storage::get_tuple, then both guards are dropped
LTupleRead(t) ==
    /\ th[t].pc = "g_read"
    /\ LReturn(t)
    /\ lk' = [lk EXCEPT !.sr = @ \ {t}, !.mr = @ \ {t}]
    /\ LockFrame /\ UNCHANGED <<walPoisoned, storePoisoned>>

\* The steps of thread t inside a call
LStep(t) ==
    \/ LTryWal(t) \/ LMemWrite(t) \/ LStWrite(t)
    \/ \E res \in {Ok, NotFound(0), Panic} : LExec(t, res)
    \/ LUnlockStorage(t) \/ LUnlockMemtable(t) \/ LCommitReturn(t)
    \/ LWalWrite(t)
    \/ \E res \in {Ok, CorruptedData, Panic} : LRevert(t, res)
    \/ LStRead(t)
    \/ \E b \in BOOLEAN : LContains(t, b)
    \/ LMemRead(t)
    \/ \E hit \in BOOLEAN : LLookup(t, hit)
    \/ LTupleLock(t) \/ LTupleRead(t)

LockNext ==
    \/ \E t \in Threads, f \in Calls : LCall(t, f)
    \/ \E t \in Threads : LTryWal(t)
    \/ \E t \in Threads : LMemWrite(t)
    \/ \E t \in Threads : LStWrite(t)
    \/ \E t \in Threads, res \in {Ok, NotFound(0), Panic} : LExec(t, res)
    \/ \E t \in Threads : LUnlockStorage(t)
    \/ \E t \in Threads : LUnlockMemtable(t)
    \/ \E t \in Threads : LCommitReturn(t)
    \/ \E t \in Threads : LWalWrite(t)
    \/ \E t \in Threads, res \in {Ok, CorruptedData, Panic} : LRevert(t, res)
    \/ \E t \in Threads : LStRead(t)
    \/ \E t \in Threads, b \in BOOLEAN : LContains(t, b)
    \/ \E t \in Threads : LMemRead(t)
    \/ \E t \in Threads, hit \in BOOLEAN : LLookup(t, hit)
    \/ \E t \in Threads : LTupleLock(t)
    \/ \E t \in Threads : LTupleRead(t)

\* Every thread that is inside a call keeps running
LockSpec ==
    LockInit /\ [][LockNext]_vars /\ \A t \in Threads : WF_vars(LStep(t))

----------------------------------------------------------------------------
(* Wal: the calls of Wal (write, read, revert, and drop followed by Wal::new)
   on an empty log directory, for either configured log_path.  The logs
   written carry fresh ids; obs holds them in the order of the writes and
   txs the transaction a revert has just returned. *)

MaxLogs == 5

\* The operation lists of the TransactionLogs written
WalData ==
    {<<WalUpdate(1, 2, 1)>>, <<WalInsert(2, 1), WalUpdate(2, 2, 1)>>,
     <<WalDelete(1, 2), WalDrop>>}

WalInit ==
    \E log_path \in LogPaths :
    \E c \in {CollectionNew(EmptyMap, None, EmptyMap, None)} :
    \E w \in {WalNewAt(log_path, EmptyMap, None)} :
            /\ dataFiles = c.st.files
            /\ indexFile = c.indexFile
            /\ logFiles = w.logs
            /\ walIndexFile = w.walIndexFile
            /\ alive = TRUE
            /\ memtable = EmptyMap
            /\ storage = [file |-> c.st.file, index |-> c.st.index,
                          filter |-> c.st.filter]
            /\ wal = w.wal
            /\ walPoisoned = FALSE
            /\ storePoisoned = FALSE
            /\ txs = <<>>
            /\ clock = 0
            /\ ids = <<>>
            /\ created = 0
            /\ queued = 0
            /\ commits = 0
            /\ reverted = 0
            /\ opens = 1
            /\ expected = EmptyMap
            /\ panicked = FALSE
            /\ ended = "none"
            /\ last = NoLast
            /\ snap = NoSnap
            /\ th = [t \in Threads |-> Idle]
            /\ lk = Unlocked
            /\ obs = <<>>
            /\ base = <<>>

\* What the calls of Wal leave alone
WalFrame ==
    UNCHANGED <<dataFiles, indexFile, alive, memtable, storage, walPoisoned,
                storePoisoned, clock, created, commits, queued, reverted, expected,
                panicked, ended, snap, th, lk, base>>

\* Wal::write of a TransactionLog with a fresh id
WWrite(data) ==
    /\ Len(ids) < MaxLogs
    /\ \E log \in {[id |-> Len(ids) + 1, data |-> data]} :
       \E c \in {WalWrite(Col, log)} :
           /\ logFiles' = c.logFiles
           /\ walIndexFile' = c.walIndexFile
           /\ wal' = c.wal
           /\ ids' = Append(ids, log.id)
           /\ obs' = Append(obs, log)
           /\ last' = [NoLast EXCEPT !.op = "write", !.id = log.id]
    /\ txs' = <<>>
    /\ WalFrame /\ UNCHANGED opens

\* Wal::read
WRead(tx_id) ==
    /\ last' = [NoLast EXCEPT !.op = "read", !.id = tx_id, !.res = WalRead(Col, tx_id)]
    /\ txs' = <<>>
    /\ WalFrame /\ UNCHANGED <<logFiles, walIndexFile, wal, ids, opens, obs>>

\* Wal::revert: read, then Transaction::new and the inverse operations
WRevert(tx_id) ==
    /\ \E r \in {WalRead(Col, tx_id)} :
           /\ txs' = IF r.kind = "Ok"
                     THEN <<[TransactionNew(clock) EXCEPT !.data = Revert(r.log)]>>
                     ELSE <<>>
           /\ last' = [NoLast EXCEPT !.op = "revert", !.id = tx_id,
                                     !.res = [kind |-> r.kind, key |-> 0]]
    /\ WalFrame /\ UNCHANGED <<logFiles, walIndexFile, wal, ids, opens, obs>>

\* The Wal is dropped and Wal::new runs again with the same configuration
WReopen ==
    /\ opens < MaxOpens
    /\ opens' = opens + 1
    /\ \E w \in {WalNewAt(wal.log_path, logFiles, walIndexFile)} :
           /\ logFiles' = w.logs
           /\ walIndexFile' = w.walIndexFile
           /\ wal' = w.wal
    /\ txs' = <<>>
    /\ last' = NoLast
    /\ WalFrame /\ UNCHANGED <<ids, obs>>

WalNext ==
    \/ \E data \in WalData : WWrite(data)
    \/ \E tx_id \in 1..(MaxLogs + 1) : WRead(tx_id)
    \/ \E tx_id \in 1..(MaxLogs + 1) : WRevert(tx_id)
    \/ WReopen

WalSpec == WalInit /\ [][WalNext]_vars

----------------------------------------------------------------------------
(* Scan: Collection::new (Storage::new, Wal::new) on a data path that holds
   any set of data chunk files and log files, each empty, partly filled or
   full, with gaps in the numbering and with data files whose id is beyond
   max_data_chunks. *)

MaxPages == 2

\* The names Data_{page}_{id}.db and DustDataLog_{id} of the files found
ScanChunks == (0..(MaxPages - 1)) \X (0..MaxDataChunks)
ScanLogs == 0..2

\* A data file of n records, a log file of n records
DataFileOf(n) == [i \in 1..n |-> 1]
LogFileOf(n) == [i \in 1..n |-> [id |-> i, data |-> <<WalDrop>>]]

\* The lengths in records of the data files: empty, below max_data_chunk_size, full
DataFills == {0, 1, (MaxDataChunkSize + serialize_value(0) - 1) \div serialize_value(0)}
\* The lengths in records of the log files: empty, full
LogFills == {0, (MaxLogSize + LogLen(LogFileOf(1)) - 1) \div LogLen(LogFileOf(1))}

ScanInit ==
    \E present \in SUBSET ScanChunks, logs \in SUBSET ScanLogs :
    \E fill \in [present -> DataFills], lfill \in [logs -> LogFills] :
            /\ dataFiles = [c \in present |-> DataFileOf(fill[c])]
            /\ indexFile = None
            /\ logFiles = [l \in logs |-> LogFileOf(lfill[l])]
            /\ walIndexFile = None
            /\ alive = FALSE
            /\ memtable = EmptyMap
            /\ storage = [file |-> <<0, 0>>, index |-> EmptyMap, filter |-> BloomNew(0)]
            /\ wal = [current_file |-> 0, index |-> EmptyMap, log_path |-> DefaultLogPath]
            /\ walPoisoned = FALSE
            /\ storePoisoned = FALSE
            /\ txs = <<>>
            /\ clock = 0
            /\ ids = <<>>
            /\ created = 0
            /\ queued = 0
            /\ commits = 0
            /\ reverted = 0
            /\ opens = MaxOpens - 1
            /\ expected = EmptyMap
            /\ panicked = FALSE
            /\ ended = "close"
            /\ last = NoLast
            /\ snap = NoSnap
            /\ th = [t \in Threads |-> Idle]
            /\ lk = Unlocked
            /\ obs = <<>>
            /\ base = <<>>

ScanNext ==
    \/ Open
    \/ Close
    \/ Kill

ScanSpec == ScanInit /\ [][ScanNext]_vars

----------------------------------------------------------------------------
(* Bloom: the calls insert, remove and clear of a BloomFilter created for
   0, 1 or 2 expected keys; storage.filter is the filter and obs the calls
   made on it, in order. *)

MaxBloomCalls == 4
BloomKeys == 1..4

BloomInit ==
    \E n \in 0..NumKeys :
            /\ dataFiles = EmptyMap
            /\ indexFile = None
            /\ logFiles = EmptyMap
            /\ walIndexFile = None
            /\ alive = TRUE
            /\ memtable = EmptyMap
            /\ storage = [file |-> <<0, 0>>, index |-> EmptyMap, filter |-> BloomNew(n)]
            /\ wal = [current_file |-> 0, index |-> EmptyMap, log_path |-> DefaultLogPath]
            /\ walPoisoned = FALSE
            /\ storePoisoned = FALSE
            /\ txs = <<>>
            /\ clock = 0
            /\ ids = <<>>
            /\ created = 0
            /\ queued = 0
            /\ commits = 0
            /\ reverted = 0
            /\ opens = 1
            /\ expected = EmptyMap
            /\ panicked = FALSE
            /\ ended = "none"
            /\ last = NoLast
            /\ snap = NoSnap
            /\ th = [t \in Threads |-> Idle]
            /\ lk = Unlocked
            /\ obs = <<>>
            /\ base = <<>>

\* What the calls on the filter leave alone
BloomFrame ==
    UNCHANGED <<disk, alive, memtable, wal, walPoisoned, storePoisoned, txs, clock,
                hist, th, lk, base>>

\* BloomFilter::insert
BInsert(k) ==
    /\ Len(obs) < MaxBloomCalls
    /\ storage' = [storage EXCEPT !.filter = BloomInsert(@, k)]
    /\ obs' = Append(obs, [op |-> "insert", key |-> k])
    /\ BloomFrame

\* BloomFilter::remove
BRemove(k) ==
    /\ Len(obs) < MaxBloomCalls
    /\ storage' = [storage EXCEPT !.filter = BloomRemove(@, k)]
    /\ obs' = Append(obs, [op |-> "remove", key |-> k])
    /\ BloomFrame

\* BloomFilter::clear
BClear ==
    /\ Len(obs) < MaxBloomCalls
    /\ storage' = [storage EXCEPT !.filter = BloomClear(@)]
    /\ obs' = Append(obs, [op |-> "clear", key |-> 0])
    /\ BloomFrame

BloomNext ==
    \/ \E k \in BloomKeys : BInsert(k)
    \/ \E k \in BloomKeys : BRemove(k)
    \/ BClear

BloomSpec == BloomInit /\ [][BloomNext]_vars

----------------------------------------------------------------------------
(* Properties *)

\* what get returns for every key when the store holds exactly the map m
Shows(m) == [k \in Keys |-> IF k \in DOMAIN m THEN Some(m[k]) ELSE None]

\* the operations of ops that write key k: those on k, and every Drop
Writes(ops, k) == {i \in 1..Len(ops) : ops[i].op = "Drop" \/ ops[i].key = k}

\* the last operation of ops that writes key k (Writes(ops, k) is not empty)
LastWrite(ops, k) == ops[CHOOSE i \in Writes(ops, k) : \A j \in Writes(ops, k) : j <= i]

\* C1: in the first process on the data path, as long as every commit has
\* ended in success or in a domain error, get(k) returns Some(v) for every key
\* k whose last successfully executed mutation is Insert(k, v) or Update(k, v).
C1_GetReturnsLastWritten ==
    (alive /\ opens = 1 /\ ~panicked) =>
        \A k \in DOMAIN expected : get(Col, k) = Some(expected[k])

\* C2: in the first process on the data path, as long as every commit has
\* ended in success or in a domain error, get(k) returns None for every key k
\* that was never successfully inserted or whose last successful mutation is
\* Delete(k) or Drop, whatever the filter reports for k.
C2_GetReturnsNoneForAbsent ==
    (alive /\ opens = 1 /\ ~panicked) =>
        \A k \in Keys \ DOMAIN expected : get(Col, k) = None

\* C3: when the key k was stored with value v (in the primary index, and get
\* returned Some(v)), the commit of the transaction [Insert(k, v2)] has
\* returned AlreadyExists(k) and get(k) still returns Some(v).
C3_RejectedInsertNotObservable ==
    (/\ alive /\ last.op = "commit" /\ ~last.reopened
     /\ Len(last.ops) = 1 /\ last.ops[1].op = "Insert"
     /\ last.ops[1].key \in last.keys
     /\ last.pre[last.ops[1].key][1] = "Some") =>
        /\ last.res = AlreadyExists(last.ops[1].key)
        /\ get(Col, last.ops[1].key) = last.pre[last.ops[1].key]

\* C4: rollback(tx) right after the successful commit(tx) has returned success
\* and get(k) is, for every key k, what it was right before commit(tx).
C4_RollbackRestoresPreState ==
    snap.stage = 2 => (snap.res = Ok /\ Gets(Col) = snap.pre)

\* C5: when rollback(tx) succeeded and returned r, rollback(r) has returned
\* success and get(k) is, for every key k, what it was right after commit(tx).
C5_RollbackOfRollbackReapplies ==
    snap.stage = 3 => (snap.res = Ok /\ Gets(Col) = snap.post)

\* C6: after a commit returned success, the process was killed and the data
\* path was reopened, get(k) returns Some(v) for every key k that the
\* transaction last wrote with Insert(k, v) or Update(k, v).
C6_CommittedSurvivesKill ==
    (alive /\ last.reopened /\ ended = "kill" /\ last.op = "commit" /\ last.res = Ok) =>
        \A k \in Keys :
            (Writes(last.ops, k) # {} /\ LastWrite(last.ops, k).op \in {"Insert", "Update"})
                => get(Col, k) = Some(LastWrite(last.ops, k).value)

\* C7: after the collection was dropped normally and the data path reopened,
\* get(k) returns for every key k the value of its last successfully executed
\* Insert or Update, and None for keys deleted, dropped or never inserted.
C7_ReopenAfterCloseShowsCommitted ==
    (alive /\ last.reopened /\ ended = "close") => Gets(Col) = Shows(expected)

\* C8: when commit (also the one rollback runs) has returned success, the
\* persisted WAL index equals the in-memory one and maps the transaction's id
\* to a log chunk and an offset at which the complete record of the
\* transaction starts: its id and one entry per operation, in order.
C8_WalWrittenBeforeReply ==
    (alive /\ ~last.reopened /\ last.op \in {"commit", "rollback"} /\ last.res = Ok) =>
        /\ walIndexFile = Some(wal.index)
        /\ last.id \in DOMAIN wal.index
        /\ wal.index[last.id][1] \in DOMAIN logFiles
        /\ \E rec \in {DeserializeLog(logFiles[wal.index[last.id][1]],
                                      wal.index[last.id][2])} :
               /\ rec # None
               /\ rec[2].id = last.id
               /\ Len(rec[2].data) = Len(last.ops)
               /\ \A i \in 1..Len(last.ops) :
                      /\ rec[2].data[i].op = last.ops[i].op
                      /\ rec[2].data[i].key = last.ops[i].key

\* C8 witness: a successful commit of two or more operations whose record
\* starts behind an earlier record of the same log chunk
C8_Witness ==
    /\ alive /\ ~last.reopened /\ last.op = "commit" /\ last.res = Ok
    /\ Len(last.ops) >= 2
    /\ last.id \in DOMAIN wal.index
    /\ wal.index[last.id][2] > 0

\* C9: every key of the primary index is reported present by the filter.
C9_FilterCoversIndex ==
    \A k \in DOMAIN storage.index : BloomContains(storage.filter, k)

\* C10: the transaction ids assigned within one process lifetime are strictly
\* increasing in creation order.
C10_TxIdsStrictlyIncreasing ==
    \A i, j \in 1..Len(ids) : i < j => ids[i] < ids[j]

\* the value a map holds for key k
MapAt(m, k) == IF k \in DOMAIN m THEN Some(m[k]) ELSE None

\* the transactions a run can hold
TxIds == 1..(MaxTx + MaxRollbacks)

\* the number of operations of ops that execute successfully on c before
\* execute_operation returns
Done(c, ops) == Len(ExecLoop(c, ops, <<>>).wal_operations)

\* the collection after the first n operations of ops have executed on c
After(c, ops, n) == ExecLoop(c, SubSeq(ops, 1, n), <<>>).c

\* C11: when an operation of a committing transaction fails with
\* AlreadyExists or NotFound, commit returns that error, the later operations
\* are not executed, and what the earlier operations did to memtable, primary
\* index, filter and data files is still there.
C11_PartialCommitKeepsPrefix ==
    [][\A t \in TxIds :
        (Commit(t) /\ last'.res.kind \in {"AlreadyExists", "NotFound"}) =>
            \E n \in {Done(Col, txs[t].data)} :
            \E p \in {After(Col, txs[t].data, n)} :
                /\ last'.res = ExecOne(p, txs[t].data[n + 1]).res
                /\ storage'.index = p.st.index
                /\ storage'.filter = p.st.filter
                /\ dataFiles' = p.st.files
                /\ \A k \in Keys :
                       /\ Writes(SubSeq(txs[t].data, 1, n), k) # {}
                              => MapAt(memtable', k) = MapAt(p.memtable, k)
                       /\ Writes(SubSeq(txs[t].data, 1, n + 1), k) = {}
                              => MapAt(memtable', k) = MapAt(memtable, k)]_vars

\* C12: after a commit that executed some operations and then returned an
\* error, the WAL holds a record of the executed operations under the
\* transaction's id.
C12_PartialCommitLogged ==
    [][\A t \in TxIds :
        (Commit(t) /\ last'.res.kind \in {"AlreadyExists", "NotFound"}
                   /\ Done(Col, txs[t].data) >= 1) =>
            /\ txs[t].tx_id \in DOMAIN wal'.index
            /\ wal'.index[txs[t].tx_id][1] \in DOMAIN logFiles'
            /\ \E rec \in {DeserializeLog(logFiles'[wal'.index[txs[t].tx_id][1]],
                                          wal'.index[txs[t].tx_id][2])} :
                   /\ rec # None
                   /\ rec[2].id = txs[t].tx_id
                   /\ Len(rec[2].data) = Done(Col, txs[t].data)
                   /\ \A i \in 1..Len(rec[2].data) :
                          /\ rec[2].data[i].op = txs[t].data[i].op
                          /\ rec[2].data[i].key = txs[t].data[i].key]_vars

\* C13: an Update or Delete of a key that is not in the primary index makes
\* the commit return NotFound for that key; it never panics, also when the
\* filter reports the key present.
C13_MissingKeyIsNotFound ==
    [][\A t \in TxIds :
        (Commit(t) /\ txs[t].status # "Committed" /\ ~walPoisoned /\ ~storePoisoned) =>
            \E n \in {Done(Col, txs[t].data)} :
                (/\ n < Len(txs[t].data)
                 /\ txs[t].data[n + 1].op \in {"Update", "Delete"}
                 /\ txs[t].data[n + 1].key \notin DOMAIN After(Col, txs[t].data, n).st.index)
                    => last'.res = NotFound(txs[t].data[n + 1].key)]_vars

\* C14: commit of a transaction whose status is Committed is rejected: none
\* of its operations is applied again and nothing is written to the WAL; and
\* a commit that succeeds leaves the transaction Committed.
C14_CommitOnce ==
    [][\A t \in TxIds :
        Commit(t) =>
            /\ txs[t].status = "Committed" =>
                   /\ last'.res = Panic
                   /\ txs'[t].status = "Committed"
                   /\ UNCHANGED <<disk, memtable, storage, wal>>
            /\ last'.res = Ok =>
                   /\ txs[t].status # "Committed"
                   /\ txs'[t].status = "Committed"]_vars

\* a commit of a Committed transaction with operations has just been rejected
C14_Witness ==
    /\ alive /\ ~last.reopened /\ last.op = "commit" /\ last.res = Panic
    /\ last.tx \in 1..Len(txs)
    /\ txs[last.tx].status = "Committed"
    /\ last.ops # <<>>

\* C15: abort of a transaction that is not Committed sets its status to
\* Aborted and leaves memtable, primary index, filter, data files and WAL as
\* they were; abort of a Committed transaction is rejected and leaves the
\* status Committed.
C15_AbortOnlyChangesStatus ==
    [][\A t \in TxIds :
        Abort(t) =>
            /\ UNCHANGED <<disk, memtable, storage, wal>>
            /\ txs[t].status # "Committed" => txs'[t].status = "Aborted"
            /\ txs[t].status = "Committed" =>
                   (txs'[t].status = "Committed" /\ panicked')]_vars

\* a transaction with queued operations has been aborted, and an abort of a
\* Committed transaction has been rejected, on a collection that holds data
C15_Witness ==
    /\ alive /\ panicked /\ ~walPoisoned /\ ~storePoisoned
    /\ last.res = Ok
    /\ DOMAIN storage.index # {}
    /\ \E t \in 1..Len(txs) : txs[t].status = "Aborted" /\ txs[t].data # <<>>
    /\ \E t \in 1..Len(txs) : txs[t].status = "Committed"

\* C16: rollback is accepted only for a Committed transaction; when it
\* succeeds the transaction is RolledBack, the returned rollback transaction
\* is Committed, and the WAL has gained exactly one entry, under the rollback
\* transaction's own id, which differs from the transaction's id.
C16_RollbackLogsUnderOwnId ==
    [][\A t \in TxIds, adv \in {0, 1} :
        Rollback(t, adv) =>
            /\ txs[t].status # "Committed" =>
                   /\ last'.res = Panic
                   /\ txs' = txs
                   /\ UNCHANGED <<disk, memtable, storage, wal>>
            /\ last'.res = Ok =>
                   /\ txs[t].status = "Committed"
                   /\ txs'[t].status = "RolledBack"
                   /\ Len(txs') = Len(txs) + 1
                   /\ txs'[Len(txs')].status = "Committed"
                   /\ txs'[Len(txs')].tx_id # txs[t].tx_id
                   /\ txs'[Len(txs')].tx_id \notin DOMAIN wal.index
                   /\ DOMAIN wal'.index = DOMAIN wal.index \cup {txs'[Len(txs')].tx_id}]_vars

\* C17: commit never waits for a lock: no thread inside commit is ever
\* blocked on the lock of the WAL, the memtable or the storage (it returns
\* Deadlock instead).
C17_CommitNeverWaits ==
    \A t \in Committers : th[t].waits = "none"

\* C19: the get calls of a reader that runs while a transaction of several
\* operations commits successfully are consistent with the transaction taking
\* effect at one instant: the results up to some point are those of the state
\* before the commit, the results after it those of the state after the commit.
C19_ReaderSeesCommitAtomically ==
    \A c \in Committers :
        (/\ Len(txs[c].data) >= 2
         /\ th[c].pc = "done" /\ th[c].res = Ok
         /\ \A d \in Committers \ {c} : th[d].pc = "idle") =>
            \E j \in 0..Len(obs) :
                \A i \in 1..Len(obs) :
                    obs[i].res = IF i <= j THEN base[obs[i].key]
                                 ELSE get(Col, obs[i].key)

\* C18: when commit(A) has returned success before a get or commit(B) is
\* invoked, and no other commit ran, the get returns what A last wrote to its
\* key, an Insert by B of a key A wrote fails with AlreadyExists, and an Update
\* or Delete by B of such a key captures A's value as the old value.
C18_LaterCallsObserveCommit ==
    \A a \in Committers :
        /\ (\A d \in Committers \ {a} : th[d].pc = "idle") =>
               \A i \in 1..Len(obs) :
                   (a \in obs[i].after /\ Writes(txs[a].data, obs[i].key) # {}) =>
                       obs[i].res =
                           IF LastWrite(txs[a].data, obs[i].key).op \in {"Insert", "Update"}
                           THEN Some(LastWrite(txs[a].data, obs[i].key).value)
                           ELSE None
        /\ \A b \in Committers \ {a} :
               (/\ th[b].pc = "done" /\ a \in th[b].after
                /\ txs[b].data # <<>>
                /\ txs[b].data[1].op # "Drop"
                /\ Writes(txs[a].data, txs[b].data[1].key) # {}
                /\ LastWrite(txs[a].data, txs[b].data[1].key).op \in {"Insert", "Update"}) =>
                   IF txs[b].data[1].op = "Insert"
                   THEN th[b].res = AlreadyExists(txs[b].data[1].key)
                   ELSE /\ th[b].wal_operations # <<>>
                        /\ LastWrite(txs[a].data, txs[b].data[1].key).value =
                               IF txs[b].data[1].op = "Update"
                               THEN th[b].wal_operations[1].old_value
                               ELSE th[b].wal_operations[1].value

\* C20: once the records appended to the current data file have made it
\* exceed max_data_chunk_size, the next append goes to a new file: no record
\* is ever appended to a data file that already exceeds max_data_chunk_size.
C20_RolloverWhileOpen ==
    \A chunk \in DOMAIN dataFiles :
        Len(dataFiles[chunk]) >= 1 =>
            DataLen(SubSeq(dataFiles[chunk], 1, Len(dataFiles[chunk]) - 1))
                <= MaxDataChunkSize

\* C21: every entry of the primary index references a data chunk file that
\* exists and an offset at which a complete record was appended, and that
\* record holds the value last written for the key.
C21_IndexPointsAtRecords ==
    alive =>
        \A k \in DOMAIN storage.index :
            /\ storage.index[k].data_chunk \in DOMAIN dataFiles
            /\ \E r \in {deserialize_value(dataFiles[storage.index[k].data_chunk],
                                           storage.index[k].offset)} :
                   /\ r.kind = "Ok"
                   /\ k \in DOMAIN expected => r.value = expected[k]

\* what one operation o that executes successfully on the collection p does
\* to the data files and to the primary index entry of its key
AppendsOneRecord(p, o) ==
    \E r \in {ExecOne(p, o)} :
        IF o.op \in {"Insert", "Update"}
        THEN /\ r.c.st.files =
                    [p.st.files EXCEPT ![p.st.file] = Append(@, o.value)]
             /\ r.c.st.index[o.key] =
                    IndexEntry(DataLen(p.st.files[p.st.file]), p.st.file)
        ELSE r.c.st.files = p.st.files

\* C22: no step shortens a data file or changes a record already written;
\* every Insert and Update of a successful commit appends exactly one record
\* and points the key's index entry at its start, Delete and Drop append
\* nothing.
C22_DataFilesAppendOnly ==
    [][/\ \A ch \in DOMAIN dataFiles :
              /\ ch \in DOMAIN dataFiles'
              /\ Len(dataFiles'[ch]) >= Len(dataFiles[ch])
              /\ SubSeq(dataFiles'[ch], 1, Len(dataFiles[ch])) = dataFiles[ch]
       /\ \A t \in TxIds :
              (Commit(t) /\ last'.res = Ok) =>
                  /\ dataFiles' =
                         After(Col, txs[t].data, Len(txs[t].data)).st.files
                  /\ \A i \in 1..Len(txs[t].data) :
                         AppendsOneRecord(After(Col, txs[t].data, i - 1),
                                          txs[t].data[i])]_vars

\* a commit of Insert then Update of one key has succeeded: the data file
\* holds both records and the index points at the second
C22_Witness ==
    /\ alive /\ ~last.reopened /\ last.op = "commit" /\ last.res = Ok
    /\ Len(last.ops) = 2
    /\ last.ops[1].op = "Insert" /\ last.ops[2].op = "Update"
    /\ last.ops[1].key = last.ops[2].key
    /\ last.ops[1].value # last.ops[2].value
    /\ last.ops[2].key \in DOMAIN storage.index
    /\ Len(dataFiles[storage.file]) >= 2
    /\ storage.index[last.ops[2].key].offset =
           DataLen(dataFiles[storage.file]) - serialize_value(0)

\* C23: after a successful commit whose last operation is Drop, get returns
\* None and contains returns false for every key, memtable, primary index and
\* filter are empty, the Drop has left every data file as it was, and the WAL
\* record of the transaction holds Drop for that operation.
C23_DropEmptiesCollection ==
    [][\A t \in TxIds :
        (/\ Commit(t) /\ last'.res = Ok
         /\ txs[t].data # <<>>
         /\ txs[t].data[Len(txs[t].data)].op = "Drop") =>
            /\ memtable' = EmptyMap
            /\ storage'.index = EmptyMap
            /\ storage'.filter.bits = {}
            /\ \A k \in Keys :
                   /\ get(Col, k)' = None
                   /\ contains(Col, k)' = Some(FALSE)
            /\ dataFiles' =
                   After(Col, txs[t].data, Len(txs[t].data) - 1).st.files
            /\ DOMAIN dataFiles' = DOMAIN dataFiles
            /\ txs[t].tx_id \in DOMAIN wal'.index
            /\ \E rec \in {DeserializeLog(logFiles'[wal'.index[txs[t].tx_id][1]],
                                          wal'.index[txs[t].tx_id][2])} :
                   /\ rec # None
                   /\ Len(rec[2].data) = Len(txs[t].data)
                   /\ rec[2].data[Len(txs[t].data)] = WalDrop]_vars

\* a transaction ending in Drop has been committed on a collection that held
\* keys and records
C23_Witness ==
    /\ alive /\ ~last.reopened /\ last.op = "commit" /\ last.res = Ok
    /\ last.ops # <<>>
    /\ last.ops[Len(last.ops)].op = "Drop"
    /\ last.keys # {}
    /\ dataFiles[storage.file] # <<>>
    /\ storage.index = EmptyMap

\* C24: under every interleaving of commit, rollback, get and contains calls
\* no deadlock is reached: every call a thread has started returns, as long
\* as the threads inside calls keep running.
C24_EveryCallReturns ==
    \A t \in Threads : (th[t].pc # "idle") ~> (th[t].pc = "idle")

\* a commit waits for the storage lock a reader holds while a rollback waits
\* for the WAL lock the commit holds
C24_Witness ==
    \E c, r, g \in Threads :
        /\ th[c].pc = "c_st" /\ th[c].waits = "storage" /\ lk.wal = c
        /\ th[r].pc = "r_wal" /\ th[r].waits = "wal"
        /\ g \in lk.sr

\* C25: at every instant, also when the process dies inside a WAL write,
\* every entry of the persisted WAL index points at a complete record of
\* that transaction in the log file (the record is appended before the
\* entry is persisted).
C25_WalIndexPointsAtRecords ==
    walIndexFile # None =>
        \A id \in DOMAIN walIndexFile[2] :
            /\ walIndexFile[2][id][1] \in DOMAIN logFiles
            /\ \E l \in {DeserializeLog(logFiles[walIndexFile[2][id][1]],
                                        walIndexFile[2][id][2])} :
                   /\ l # None
                   /\ l[2].id = id

\* C26: when the process ends inside a commit that has already modified
\* memtable, index, filter or data file and has not written its WAL record
\* (it is killed, or a panic of the commit unwinds it), then after the
\* collection is reopened get(k) of every key is what it was before that
\* commit started.
C26_UnloggedCommitInvisible ==
    (/\ alive /\ last.reopened /\ last.op = "commit"
     /\ last.res \in {Killed, Panic}
     /\ last.ops # <<>>) =>
        Gets(Col) = last.pre

\* C27: every WAL write picks the log chunk anew: the record of a successful
\* commit or rollback is written to, and indexed under, the smallest chunk
\* id whose file was missing or below max_log_size when it was written, so
\* it starts below max_log_size and every smaller chunk is full.
C27_WalWritePicksLogChunk ==
    (/\ alive /\ ~last.reopened /\ last.op \in {"commit", "rollback"}
     /\ last.res = Ok
     /\ last.id \in DOMAIN wal.index) =>
        /\ wal.index[last.id][2] < MaxLogSize
        /\ \A j \in 0..(wal.index[last.id][1] - 1) :
               /\ j \in DOMAIN logFiles
               /\ LogLen(logFiles[j]) >= MaxLogSize

\* C28: for every configured wal.log_path, read(id) after write(log) with
\* log.id = id returns Some(log), however many other logs were written before
\* or after it, and read of an id never written returns None.
C28_WalReadRoundTrip ==
    last.op = "read" =>
        last.res = [kind |-> "Ok",
                    log |-> IF last.id \in 1..Len(obs) THEN Some(obs[last.id]) ELSE None]

\* C29: revert(tx_id) of a logged transaction returns a new Active
\* transaction whose operations are, in the order of the logged
\* WalOperations, their inverses: Insert{k,v} gives Delete(k),
\* Update{k,new,old} gives Update(k,old), Delete{k,v} gives Insert(k,v) and
\* Drop gives Drop.
C29_RevertInvertsInForwardOrder ==
    (last.op = "revert" /\ last.res = Ok /\ last.id \in 1..Len(obs)) =>
        /\ Len(txs) = 1
        /\ txs[1].status = "Active"
        /\ Len(txs[1].data) = Len(obs[last.id].data)
        /\ \A i \in 1..Len(txs[1].data) :
               \E w \in {obs[last.id].data[i]} :
                   txs[1].data[i] =
                       CASE w.op = "Insert" -> OpDelete(w.key)
                         [] w.op = "Update" -> OpUpdate(w.key, w.old_value)
                         [] w.op = "Delete" -> OpInsert(w.key, w.value)
                         [] w.op = "Drop" -> OpDrop

\* a revert of a logged two-operation transaction whose record lies in the
\* second log chunk, behind the records of four earlier logs, has returned
C29_Witness ==
    /\ last.op = "revert" /\ last.res = Ok
    /\ last.id \in 1..Len(obs)
    /\ last.id > 4
    /\ Len(obs[last.id].data) = 2
    /\ wal.index[last.id][1] = 1
    /\ Len(txs) = 1 /\ Len(txs[1].data) = 2

\* C30: the TransactionLog a successful commit writes carries the tx_id of
\* the transaction and one WalOperation per Operation, in the same order and
\* for the same key; the old value of an Update and the value of a Delete
\* are the value last successfully written for the key before the operation
\* executed, also when the same transaction wrote the key earlier.
C30_LogCapturesOldValues ==
    [][\A t \in TxIds :
          (Commit(t) /\ last'.res = Ok) =>
              \E rec \in {logFiles'[wal.current_file][Len(logFiles'[wal.current_file])]} :
                  /\ rec.id = txs[t].tx_id
                  /\ Len(rec.data) = Len(txs[t].data)
                  /\ \A i \in 1..Len(rec.data) :
                         \E o \in {txs[t].data[i]}, w \in {rec.data[i]},
                            e \in {After(Col, txs[t].data, i - 1).expected} :
                             /\ w.op = o.op
                             /\ o.op # "Drop" => w.key = o.key
                             /\ o.op \in {"Insert", "Update"} => w.value = o.value
                             /\ o.op = "Update" =>
                                    /\ o.key \in DOMAIN e
                                    /\ w.old_value = e[o.key]
                             /\ o.op = "Delete" =>
                                    /\ o.key \in DOMAIN e
                                    /\ w.value = e[o.key]]_vars

\* The chunk file / log file is missing or below its size threshold
DataChunkFree(files, c) ==
    c \notin DOMAIN files \/ DataLen(files[c]) < MaxDataChunkSize
LogChunkFree(logs, l) ==
    l \notin DOMAIN logs \/ LogLen(logs[l]) < MaxLogSize

\* (p, i) comes before (q, j) in the order (0,0), (0,1), ..,
\* (0, max_data_chunks - 1), (1,0), ..
ChunkBefore(c, d) == c[1] < d[1] \/ (c[1] = d[1] /\ c[2] < d[2])

\* C31: on open the scan of the data files ends with the first (page, id),
\* in the order (0,0), (0,1), .., (0, max_data_chunks - 1), (1,0), .., whose
\* file is missing or below max_data_chunk_size, and the scan of the log
\* files with the smallest id whose file is missing or below max_log_size,
\* whatever files exist.
C31_OpenScansForFirstFreeChunk ==
    [][Open =>
          /\ storage'.file[1] \in Nat /\ storage'.file[2] \in 0..(MaxDataChunks - 1)
          /\ DataChunkFree(dataFiles, storage'.file)
          /\ \A p \in 0..storage'.file[1], i \in 0..(MaxDataChunks - 1) :
                 ChunkBefore(<<p, i>>, storage'.file) => ~DataChunkFree(dataFiles, <<p, i>>)
          /\ wal'.current_file \in Nat
          /\ LogChunkFree(logFiles, wal'.current_file)
          /\ \A l \in 0..(wal'.current_file - 1) : ~LogChunkFree(logFiles, l)]_vars

\* an open has passed over full files and over a missing id beyond
\* max_data_chunks to a chunk of the second page, and over a full log file
C31_Witness ==
    /\ alive
    /\ storage.file = <<1, 0>>
    /\ <<0, MaxDataChunks>> \notin DOMAIN dataFiles
    /\ <<1, 1>> \in DOMAIN dataFiles
    /\ wal.current_file = 1
    /\ 2 \in DOMAIN logFiles

\* C32: as long as neither remove nor clear was called on a bloom filter,
\* every key inserted so far is contained, whatever was inserted after it,
\* and contains(y) is true exactly when the bit of every hash position of y
\* is set.
C32_NoFalseNegatives ==
    (\A i \in 1..Len(obs) : obs[i].op = "insert") =>
        /\ \A i \in 1..Len(obs) : BloomContains(storage.filter, obs[i].key)
        /\ \A y \in BloomKeys :
               BloomContains(storage.filter, y) <=>
                   \A i \in 0..(NumHashes - 1) :
                       (hash64_with_seed(y, i) % storage.filter.nbits)
                           \in storage.filter.bits

\* three different keys were inserted, a later one sharing a bit with the
\* first, and a key that was not inserted is reported present
C32_Witness ==
    /\ Len(obs) = 3
    /\ \A i \in 1..3 : obs[i].op = "insert"
    /\ obs[1].key # obs[2].key /\ obs[1].key # obs[3].key /\ obs[2].key # obs[3].key
    /\ \E j \in 2..3 :
           Positions(storage.filter, obs[1].key)
               \cap Positions(storage.filter, obs[j].key) # {}
    /\ \E y \in BloomKeys :
           /\ \A i \in 1..3 : obs[i].key # y
           /\ BloomContains(storage.filter, y)

\* C33: in every reachable state the memtable is a coherent cache of the
\* store: every key of the memtable has a primary-index entry, and its
\* memtable value is the value of the record that entry points at.
C33_MemtableCoherent ==
    alive =>
        \A k \in DOMAIN memtable :
            /\ k \in DOMAIN storage.index
            /\ get_tuple(Col.st, k) = [kind |-> "Ok", value |-> memtable[k]]

\* C34: a commit whose first operation fails with AlreadyExists or NotFound
\* leaves memtable, primary index, filter, data files, WAL index, log files
\* and the status of the transaction as they were before the call.
C34_FailedFirstOperationChangesNothing ==
    [][\A t \in TxIds :
          (/\ Commit(t)
           /\ last'.res.kind \in {"AlreadyExists", "NotFound"}
           /\ Done(Col, txs[t].data) = 0) =>
              /\ memtable' = memtable
              /\ storage' = storage
              /\ dataFiles' = dataFiles
              /\ wal' = wal
              /\ logFiles' = logFiles
              /\ walIndexFile' = walIndexFile
              /\ txs'[t].status = txs[t].status]_vars

\* C35: an Insert(k, v) executed by a commit for a key k that has no
\* primary-index entry at that point never fails with AlreadyExists,
\* whatever other keys were inserted before: a commit that returns
\* AlreadyExists(k) found k in the index.
C35_InsertOfAbsentKeyNotRejected ==
    [][\A t \in TxIds :
          (Commit(t) /\ last'.res.kind = "AlreadyExists") =>
              last'.res.key \in
                  DOMAIN After(Col, txs[t].data, Done(Col, txs[t].data)).st.index]_vars

\* C36: once the status of a transaction is Aborted or RolledBack no call
\* applies its operations: commit rejects it, and its status never becomes
\* Committed.
C36_AbortedNeverCommits ==
    [][\A t \in TxIds :
          (/\ t \in 1..Len(txs) /\ t \in 1..Len(txs')
           /\ txs[t].status \in {"Aborted", "RolledBack"}) =>
              /\ txs'[t].status # "Committed"
              /\ Commit(t) => (last'.res # Ok /\ dataFiles' = dataFiles)]_vars

\* C37: once the id of a committed transaction is in the WAL index, no later
\* commit or rollback of the same process changes or removes its
\* (log chunk, offset) entry.
C37_WalIndexEntriesAreStable ==
    [][(alive /\ alive') =>
          \A id \in DOMAIN wal.index :
              /\ id \in DOMAIN wal'.index
              /\ wal'.index[id] = wal.index[id]]_vars

\* C38: rollback is atomic with respect to concurrent commits: between its
\* reading of the WAL record and its own commit of the inverse operations
\* no other thread is inside a commit holding the WAL lock (which would
\* apply that commit in between, or make the rollback fail with Deadlock).
C38_RollbackAtomic ==
    \A r \in Threads :
        th[r].pc = "r_commit" =>
            \A c \in Threads \ {r} :
                ~(/\ lk.wal = c
                  /\ th[c].pc \in {"c_mem", "c_st", "c_loop", "c_unst", "c_unmem", "c_ret"})

\* C39: no get observes an effect of a transaction whose WAL record has not
\* been written: as long as no commit of the threads has written its record,
\* every get that returns a value (no commit having panicked) gives the
\* value the key had before the threads started.
C39_ReadersSeeOnlyLoggedCommits ==
    [][(/\ Len(obs') = Len(obs) + 1
        /\ ~storePoisoned
        /\ \A c \in Committers : txs[c].status # "Committed") =>
           obs'[Len(obs')].res = base[obs'[Len(obs')].key]]_vars

----------------------------------------------------------------------------
(* Size: the configuration sizes of dustdata.rs and their addition.  A usize
   byte count is kept as <<hi, lo>>, standing for hi * Giga + lo with
   lo < Giga, so that the products of the counts drawn here (all far below
   2^64, where usize arithmetic would overflow) are computed exactly. *)

Kilo == 1024
Mega == 1048576
Giga == 1073741824

MaxCount == 3

Units == <<"Bytes", "Kilobytes", "Megabytes", "Gigabytes">>

\* enum Size
Size(unit, n) == [unit |-> unit, n |-> n]

\* the power of 1024 that a count of the unit is multiplied by
Exponent(unit) == CHOOSE e \in 0..3 : Units[e + 1] = unit

\* n * 1024^e as a byte count
Times(n, e) ==
    CASE e = 0 -> <<n \div Giga, n % Giga>>
      [] e = 1 -> <<n \div Mega, (n % Mega) * Kilo>>
      [] e = 2 -> <<n \div Kilo, (n % Kilo) * Mega>>
      [] e = 3 -> <<n, 0>>

\* a + b on byte counts
Plus(a, b) == <<a[1] + b[1] + ((a[2] + b[2]) \div Giga), (a[2] + b[2]) % Giga>>

\* size_to_usize
size_to_usize(size) == Times(size.n, Exponent(size.unit))

\* fn calc of Size::add: each while loop takes whole units off bytes, the
\* largest unit first, and the first unit with a positive count is returned
calc(a, b) ==
    LET bytes == Plus(a, b)
        gigabytes == bytes[1]
        megabytes == bytes[2] \div Mega
        kilobytes == (bytes[2] % Mega) \div Kilo
    IN  IF gigabytes > 0 THEN Size("Gigabytes", gigabytes)
        ELSE IF megabytes > 0 THEN Size("Megabytes", megabytes)
        ELSE IF kilobytes > 0 THEN Size("Kilobytes", kilobytes)
        ELSE Size("Bytes", bytes[2] % Kilo)

\* impl Add for Size: every arm of the match multiplies each count by its
\* unit, except the arm (Kilobytes(a), Bytes(b)), which is calc(a * 1024, b * 1024)
SizeAdd(self, rhs) ==
    calc(Times(self.n, Exponent(self.unit)),
         Times(rhs.n, IF self.unit = "Kilobytes" /\ rhs.unit = "Bytes"
                      THEN 1 ELSE Exponent(rhs.unit)))

\* The Size values added
Sizes == {Size(Units[u], n) : u \in 1..4, n \in (0..MaxCount) \cup {Kilo - 1, Kilo, Kilo + 1}}

SizeInit ==
    \E a \in Sizes, b \in Sizes :
            /\ dataFiles = EmptyMap
            /\ indexFile = None
            /\ logFiles = EmptyMap
            /\ walIndexFile = None
            /\ alive = FALSE
            /\ memtable = EmptyMap
            /\ storage = [file |-> <<0, 0>>, index |-> EmptyMap, filter |-> BloomNew(0)]
            /\ wal = [current_file |-> 0, index |-> EmptyMap, log_path |-> DefaultLogPath]
            /\ walPoisoned = FALSE
            /\ storePoisoned = FALSE
            /\ txs = <<>>
            /\ clock = 0
            /\ ids = <<>>
            /\ created = 0
            /\ queued = 0
            /\ commits = 0
            /\ reverted = 0
            /\ opens = 0
            /\ expected = EmptyMap
            /\ panicked = FALSE
            /\ ended = "none"
            /\ last = NoLast
            /\ snap = NoSnap
            /\ th = [t \in Threads |-> Idle]
            /\ lk = Unlocked
            /\ obs = <<>>
            /\ base = <<a, b>>

\* self + rhs, on the two values drawn, in the order given
Add(self, rhs) ==
    /\ obs = <<>>
    /\ {self, rhs} = {base[1], base[2]}
    /\ obs' = <<[self |-> self, rhs |-> rhs, res |-> SizeAdd(self, rhs)]>>
    /\ UNCHANGED <<disk, proc, txs, clock, hist, th, lk, base>>

SizeNext == \E self \in Sizes, rhs \in Sizes : Add(self, rhs)

SizeSpec == SizeInit /\ [][SizeNext]_vars

\* the largest unit with at least one whole unit in the byte count total,
\* carrying the whole units of it (Bytes for a total of 0)
Largest(total) ==
    IF total[1] > 0 THEN Size("Gigabytes", total[1])
    ELSE IF total[2] >= Mega THEN Size("Megabytes", total[2] \div Mega)
    ELSE IF total[2] >= Kilo THEN Size("Kilobytes", total[2] \div Kilo)
    ELSE Size("Bytes", total[2])

\* C40: a + b is the largest unit with at least one whole unit in
\* size_to_usize(a) + size_to_usize(b), carrying the whole units of it; so
\* a + b = b + a, and two sizes of one unit whose counts sum to less than 1024
\* give that unit with the summed count.
C40_SumDependsOnTotalBytes ==
    \A i \in 1..Len(obs) :
        \E a \in {obs[i].self}, b \in {obs[i].rhs} :
            /\ obs[i].res = Largest(Plus(size_to_usize(a), size_to_usize(b)))
            /\ obs[i].res = SizeAdd(b, a)
            /\ (a.unit = b.unit /\ a.n + b.n > 0 /\ a.n + b.n < Kilo) =>
                   obs[i].res = Size(a.unit, a.n + b.n)

====
